---- MODULE Spec2Model ----
(***************************************************************************)
(* Model of the accommodation agent: the periodic scheduler                *)
(* (scheduler.py), the SQLite-backed tracked-item store (database.py) and  *)
(* the search-and-process pass that wires them together (main.py,          *)
(* filter.py, email_notifier.py).                                          *)
(*                                                                         *)
(* The specifications below share the variables:                           *)
(*   SchedSpec  - AccommodationScheduler with two tasks: start() and stop()*)
(*                calls, its loop threads pass by pass and task by task,   *)
(*                and the worker threads statement by statement            *)
(*   WiringSpec - the same scheduler with the four tasks of                *)
(*                create_default_scheduler                                 *)
(*   LifecycleSpec - start()/stop() calls against the loop threads, the two*)
(*                most recent calls remembered                             *)
(*   TaskSpec   - the scheduler against enable_task/disable_task calls     *)
(*   RegistrySpec - add_task/remove_task calls on the scheduler's list     *)
(*   StoreSpec  - AccommodationDatabase operations called from two threads *)
(*                on one database file, save_accommodation statement by    *)
(*                statement, backup_database and restore_database copy step*)
(*                by copy step                                             *)
(*   UpsertSpec - save_accommodation alone, called from two threads        *)
(*   FunctionSpec - search_all_platforms and _create_accommodation_hash    *)
(*                evaluated on arguments drawn from bounded sets           *)
(*   AgentSpec  - AccommodationAgent.search_and_process in two threads,    *)
(*                step by step                                             *)
(*   PassSpec   - search_and_process pass after pass in one thread         *)
(*   JobSpec    - the scheduler whose search task runs search_and_process  *)
(*                in its worker threads                                    *)
(*   CommandSpec - the interactive mode of main.py: the commands 'start',  *)
(*                'stop' and 'search' against the scheduler of the four    *)
(*                tasks and their functions                                *)
(***************************************************************************)
EXTENDS Integers, Sequences, FiniteSets, Bags, TLC

VARIABLES
    \* ---- scheduler.py ----
    sched_is_running,   \* AccommodationScheduler.is_running
    scheduler_thread,   \* AccommodationScheduler.scheduler_thread: number of the thread
                        \* made by the latest effective start(), 0 = None
    loops,              \* live threads with target=_scheduler_loop that are before the
                        \* while test: a bag of [wake_at], the clock value the thread's
                        \* sleep ends at
    tasks,              \* AccommodationScheduler.tasks, by task name
    workers,            \* live threads with target=_run_task: (task, position) -> count
    tick_now,           \* wall clock seen by the scheduler, in poll intervals
    in_pass,            \* loop threads between the while test (line 115) and the
                        \* sleep (line 134): a bag of [now, next], next = index in
                        \* self.tasks of the task the for loop takes next, 0 while
                        \* line 116 has not read the clock
    lifecycle,          \* the two most recent start()/stop() calls, oldest first
    stopping,           \* a stop() call has cleared the flag and is inside its join
    registry,           \* the list AccommodationScheduler.tasks: task names in list order
    \* ---- database.py ----
    accommodations,     \* table accommodations: id -> row
    price_history,      \* table price_history: sequence of rows in rowid order
    now,                \* wall clock (UTC) seen by the store, in hours
    tz,                 \* offset of local time from UTC, in hours
    ret,                \* outcome of the most recent operation on the tables
    searches,           \* table searches: sequence of rows in rowid order
    sqlite_sequence,    \* table sqlite_sequence, row 'searches': the largest id the
                        \* AUTOINCREMENT key of searches has given out
    notifications,      \* table notifications: sequence of rows in rowid order
    calls,              \* save_accommodation calls of concurrent threads: thread -> call
    write_lock,         \* thread whose connection holds the file's write lock, 0 = none
    backups,            \* backup files: copies of the database file's tables
    db_file,            \* the database file: whether SQLite can read it, and the
                        \* shutil.copy2 from or onto it that is in progress
    \* ---- main.py / email_notifier.py ----
    sent_accommodations,\* NotificationManager.sent_accommodations
    delivered,          \* ids that were part of a notify call that returned success
    pass_log,           \* what the search_and_process pass that ended last did
    passes,             \* search_and_process in concurrent threads: thread -> position
    \* ---- functions evaluated on their own (scraper.py, database.py) ----
    fn_arg,             \* the function under evaluation and its arguments
    fn_ret              \* how far it has got and, once it has returned, its result

loop_vars == <<in_pass, lifecycle, stopping>>
call_vars == <<registry>>
sched_vars == <<sched_is_running, scheduler_thread, loops, tasks, workers, tick_now, loop_vars,
                call_vars>>
store_vars == <<accommodations, price_history, now, tz, ret>>
fn_vars == <<fn_arg, fn_ret>>
agent_vars == <<sent_accommodations, delivered, pass_log, passes, fn_vars>>
log_tables == <<searches, sqlite_sequence, notifications>>
file_vars == <<backups, db_file>>
log_vars == <<log_tables, file_vars>>
conn_vars == <<calls, write_lock>>
vars == <<sched_vars, store_vars, agent_vars, log_vars, conn_vars>>
not_sched == <<loop_vars, call_vars, store_vars, agent_vars, log_vars, conn_vars>>
not_scheduler == <<call_vars, store_vars, agent_vars, log_vars, conn_vars>>
not_store == <<sched_vars, agent_vars, log_vars, conn_vars>>
not_tables == <<sched_vars, agent_vars, conn_vars>>

Range(s) == {s[i] : i \in 1..Len(s)}

(***************************************************************************)
(*                         SCHEDULER (scheduler.py)                        *)
(***************************************************************************)

\* Bounds of the scheduler model.
MaxTick    == 2      \* the scheduler clock stops advancing here
MaxLoops   == 2      \* loop threads created in one behaviour
MaxThreads == 3      \* loop and worker threads alive at the same time

\* time.sleep(30) in _scheduler_loop: one poll interval is the clock unit.
PollInterval == 1

\* ScheduledTask.last_run before the first execution (None).
Never == -1

\* Two tasks as a caller builds them, in list order, with a cadence of one
\* minute: two poll intervals.
TaskList ==
    << [name |-> "search", interval_type |-> "minutes", interval_value |-> 1],
       [name |-> "alerts", interval_type |-> "minutes", interval_value |-> 1] >>

\* create_default_scheduler with the default SchedulerConfig: the four tasks
\* of the agent, in list order (accommodation_search, price_alerts,
\* database_cleanup, system_heartbeat).
DefaultTasks ==
    << [name |-> "search",    interval_type |-> "hours",   interval_value |-> 6],
       [name |-> "alerts",    interval_type |-> "minutes", interval_value |-> 30],
       [name |-> "cleanup",   interval_type |-> "days",    interval_value |-> 1],
       [name |-> "heartbeat", interval_type |-> "minutes", interval_value |-> 15] >>

NamesOf(list) == [i \in 1..Len(list) |-> list[i].name]
TaskNames == Range(NamesOf(TaskList))
DefaultTaskNames == Range(NamesOf(DefaultTasks))

\* timedelta of a cadence, in poll intervals of 30 seconds.
Timedelta(type, value) ==
    CASE type = "minutes" -> value * 2
      [] type = "hours"   -> value * 120
      [] type = "days"    -> value * 2880
      [] OTHER            -> 120

\* A scheduler that keeps a fixed grid: the previously scheduled time plus the
\* cadence. The code does not do this; ThmC19_NextRunFromCompletion tells the two apart.
CalculateNextRunFromSchedule(t, at) ==
    tasks[t].next_run + Timedelta(tasks[t].interval_type, tasks[t].interval_value)

\* _calculate_next_run: now + cadence, with now read when it is called.
CalculateNextRun(t, at) == at + Timedelta(tasks[t].interval_type, tasks[t].interval_value)

\* A task that is first due one cadence interval after it was created. The
\* code makes it due at once; ThmC38_NewTasksAreDue tells the two apart.
NewTaskDueAfterInterval(type, value, at) ==
    [enabled |-> TRUE, is_running |-> FALSE, next_run |-> at + Timedelta(type, value),
     last_run |-> Never, interval_type |-> type, interval_value |-> value]

\* ScheduledTask as constructed by TaskBuilder: next_run = creation time
\* (__post_init__), last_run = None.
NewTask(type, value, at) ==
    [enabled |-> TRUE, is_running |-> FALSE, next_run |-> at,
     last_run |-> Never, interval_type |-> type, interval_value |-> value]

\* Position of a worker thread in _run_task:
\*   spawned   started by the loop, line 95 not yet executed
\*   checked   passed the guard of line 95, line 98 not yet executed
\*   marked    line 98 executed, line 99 not yet
\*   fn        inside task.function()
\*   done      task.function() has returned to line 103, the finally
\*             clause not yet executed (the functions of the agent, whose
\*             last store call is a step of its own)
\*   returned  the function returned; is_running cleared, line 109 pending
\*   caught    the function raised and the except clause logged it;
\*             is_running cleared, line 109 pending
\* and, inside cleanup_database, the function of the cleanup task:
\*   cleaning  backup_database has returned, clean_old_data not yet called
WorkerPcs == {"spawned", "checked", "marked", "fn", "cleaning", "done", "returned", "caught"}

\* Threads of one task at one position are interchangeable: workers counts them.
NoWorkers(names) == [k \in names \X WorkerPcs |-> 0]
RECURSIVE SumOver(_, _)
SumOver(f, S) == IF S = {} THEN 0
                 ELSE LET x == CHOOSE y \in S : TRUE IN f[x] + SumOver(f, S \ {x})
LiveWorkers == SumOver(workers, DOMAIN workers)
LoopThreads == BagCardinality(loops) + BagCardinality(in_pass)
LiveThreads == LoopThreads + LiveWorkers
Move(w, t, from, to) == [w EXCEPT ![<<t, from>>] = @ - 1, ![<<t, to>>] = @ + 1]
Leave(w, t, from) == [w EXCEPT ![<<t, from>>] = @ - 1]

\* The fields of ScheduledTask every specification carries. last_run is
\* written at line 99 and read by get_status only; WiringSpec carries it too.
\* A task record without last_run has nothing that line 99 changes.
TaskFields == {"enabled", "is_running", "next_run", "interval_type", "interval_value"}

\* AccommodationScheduler() and one add_task per task of the list, at clock 0.
SchedInitWith(list, fields) ==
    /\ sched_is_running = FALSE
    /\ scheduler_thread = 0
    /\ loops = EmptyBag
    /\ tasks = [t \in Range(NamesOf(list)) |->
                   LET e == CHOOSE x \in Range(list) : x.name = t
                       new == NewTask(e.interval_type, e.interval_value, 0)
                   IN [f \in fields |-> new[f]]]
    /\ workers = NoWorkers(Range(NamesOf(list)))
    /\ tick_now = 0
    /\ in_pass = EmptyBag
    /\ lifecycle = <<>>
    /\ stopping = FALSE
    /\ registry = NamesOf(list)

SchedInit == SchedInitWith(TaskList, TaskFields)

\* The loop's dispatch condition for one task (scheduler.py lines 120-122).
Due(t, at) == tasks[t].enabled /\ ~tasks[t].is_running /\ at >= tasks[t].next_run

\* One thread added to, or taken from, the threads at a position.
One(x) == SetToBag({x})

\* start(): no-op while is_running, else set the flag and start a new loop
\* thread, which scheduler_thread then refers to. start() and stop() are
\* called one after the other by the controlling thread, so no call begins
\* while stop() is inside its join. (MaxLoops and MaxThreads are bounds of the
\* model, the code has no such limits.)
Start ==
    /\ ~stopping
    /\ UNCHANGED <<tasks, workers, tick_now>>
    /\ IF sched_is_running
       THEN UNCHANGED <<sched_is_running, scheduler_thread, loops>>
       ELSE /\ scheduler_thread < MaxLoops
            /\ LiveThreads < MaxThreads
            /\ sched_is_running' = TRUE
            /\ scheduler_thread' = scheduler_thread + 1
            /\ loops' = loops (+) One([wake_at |-> tick_now])
    /\ UNCHANGED not_sched

\* stop() lines 156-159: return at once unless is_running, else clear the
\* flag. The call then waits in the join of line 162; no thread is touched.
Stop ==
    /\ ~stopping
    /\ UNCHANGED <<scheduler_thread, loops, tasks, workers, tick_now, in_pass, lifecycle>>
    /\ IF ~sched_is_running
       THEN UNCHANGED <<sched_is_running, stopping>>
       ELSE /\ sched_is_running' = FALSE
            /\ stopping' = TRUE
    /\ UNCHANGED not_scheduler

\* stop() lines 161-164: join(timeout=5) is over, because the joined loop
\* thread has ended or because the 5 seconds have passed with the thread
\* still alive (asleep, inside a pass, or not yet scheduled), and stop() returns.
StopJoin ==
    /\ stopping
    /\ stopping' = FALSE
    /\ UNCHANGED <<sched_is_running, scheduler_thread, loops, tasks, workers, tick_now>>
    /\ UNCHANGED <<in_pass, lifecycle>>
    /\ UNCHANGED not_scheduler

\* Line 115, `while self.is_running`: a loop thread whose sleep is over reads
\* the flag; it enters a pass or ends.
LoopTest(l) ==
    /\ BagIn(l, loops)
    /\ l.wake_at <= tick_now
    /\ loops' = loops (-) One(l)
    /\ IF sched_is_running
       THEN in_pass' = in_pass (+) One([now |-> 0, next |-> 0])
       ELSE UNCHANGED in_pass
    /\ UNCHANGED <<sched_is_running, scheduler_thread, tasks, workers, tick_now>>
    /\ UNCHANGED <<lifecycle, stopping>>
    /\ UNCHANGED not_scheduler

\* Line 116, `now = datetime.now()`: the pass reads the clock once; every
\* task of the pass is compared with this reading.
LoopNow(p) ==
    /\ BagIn(p, in_pass)
    /\ p.next = 0
    /\ in_pass' = (in_pass (-) One(p)) (+) One([now |-> tick_now, next |-> 1])
    /\ UNCHANGED <<sched_is_running, scheduler_thread, loops, tasks, workers, tick_now>>
    /\ UNCHANGED <<lifecycle, stopping>>
    /\ UNCHANGED not_scheduler

\* A pass that runs the task functions itself: while a function is executing
\* the pass starts nothing. The code starts a thread per due task instead;
\* ThmC24_TickNeverWaits tells the two apart.
LoopTaskSerial(p) ==
    /\ BagIn(p, in_pass)
    /\ p.next \in 1..Len(registry)
    /\ IF Due(registry[p.next], p.now)
       THEN /\ LiveThreads < MaxThreads
            /\ workers' = IF \A t \in DOMAIN tasks : workers[<<t, "fn">>] = 0
                          THEN [workers EXCEPT ![<<registry[p.next], "spawned">>] = @ + 1]
                          ELSE workers
       ELSE UNCHANGED workers
    /\ in_pass' = (in_pass (-) One(p)) (+) One([p EXCEPT !.next = @ + 1])
    /\ UNCHANGED <<sched_is_running, scheduler_thread, loops, tasks, tick_now>>
    /\ UNCHANGED <<lifecycle, stopping>>
    /\ UNCHANGED not_scheduler

\* Lines 119-131 for one task of self.tasks: when the task is enabled, not
\* running and due by the clock reading of line 116, a worker thread is made
\* and started; other threads run before the for loop takes the next task.
\* The flag is not read again. (A worker is started only while it keeps the
\* live threads within MaxThreads: a bound of the model, the code has no such
\* limit.)
LoopTask(p) ==
    /\ BagIn(p, in_pass)
    /\ p.next \in 1..Len(registry)
    /\ IF Due(registry[p.next], p.now)
       THEN /\ LiveThreads < MaxThreads
            /\ workers' = [workers EXCEPT ![<<registry[p.next], "spawned">>] = @ + 1]
       ELSE UNCHANGED workers
    /\ in_pass' = (in_pass (-) One(p)) (+) One([p EXCEPT !.next = @ + 1])
    /\ UNCHANGED <<sched_is_running, scheduler_thread, loops, tasks, tick_now>>
    /\ UNCHANGED <<lifecycle, stopping>>
    /\ UNCHANGED not_scheduler

\* Line 134, time.sleep(30): the for loop is over and the thread sleeps for
\* one poll interval from the time it goes to sleep.
LoopSleep(p) ==
    /\ BagIn(p, in_pass)
    /\ p.next > Len(registry)
    /\ in_pass' = in_pass (-) One(p)
    /\ loops' = loops (+) One([wake_at |-> tick_now + PollInterval])
    /\ UNCHANGED <<sched_is_running, scheduler_thread, tasks, workers, tick_now>>
    /\ UNCHANGED <<lifecycle, stopping>>
    /\ UNCHANGED not_scheduler

\* _run_task lines 95-96: the guard read by the worker thread; the thread
\* ends at once when the task is disabled or marked running.
WorkerCheck(t) ==
    /\ workers[<<t, "spawned">>] > 0
    /\ workers' = IF ~tasks[t].enabled \/ tasks[t].is_running
                  THEN Leave(workers, t, "spawned")
                  ELSE Move(workers, t, "spawned", "checked")
    /\ UNCHANGED <<sched_is_running, scheduler_thread, loops, tasks, tick_now>>
    /\ UNCHANGED not_sched

\* _run_task line 98: the worker marks the task running. Line 99 is a
\* statement of its own: a worker of a task that carries last_run is before
\* it; on a task without last_run line 99 changes nothing, and the worker is
\* before the call of the function.
WorkerSet(t) ==
    /\ workers[<<t, "checked">>] > 0
    /\ tasks' = [tasks EXCEPT ![t].is_running = TRUE]
    /\ workers' = Move(workers, t, "checked",
                       IF "last_run" \in DOMAIN tasks[t] THEN "marked" ELSE "fn")
    /\ UNCHANGED <<sched_is_running, scheduler_thread, loops, tick_now>>
    /\ UNCHANGED not_sched

\* _run_task line 99: last_run = datetime.now(), and the worker enters the
\* function.
WorkerLastRun(t) ==
    /\ workers[<<t, "marked">>] > 0
    /\ tasks' = [tasks EXCEPT ![t].last_run = tick_now]
    /\ workers' = Move(workers, t, "marked", "fn")
    /\ UNCHANGED <<sched_is_running, scheduler_thread, loops, tick_now>>
    /\ UNCHANGED not_sched

\* A launch boundary without the except/finally clauses: an error in the
\* function ends the worker thread and leaves the task marked running.
WorkerFnEndNoFinally(t, raise) ==
    /\ workers[<<t, "fn">>] > 0
    /\ IF raise
       THEN /\ workers' = Leave(workers, t, "fn")
            /\ UNCHANGED tasks
       ELSE /\ tasks' = [tasks EXCEPT ![t].is_running = FALSE]
            /\ workers' = Move(workers, t, "fn", "returned")
    /\ UNCHANGED <<sched_is_running, scheduler_thread, loops, tick_now>>
    /\ UNCHANGED not_sched

\* _run_task lines 101-108: task.function() returns or raises; the exception
\* is caught and logged, and the finally clause clears is_running.
WorkerFnEnd(t, raise) ==
    /\ workers[<<t, "fn">>] > 0
    /\ tasks' = [tasks EXCEPT ![t].is_running = FALSE]
    /\ workers' = Move(workers, t, "fn", IF raise THEN "caught" ELSE "returned")
    /\ UNCHANGED <<sched_is_running, scheduler_thread, loops, tick_now>>
    /\ UNCHANGED not_sched

\* _run_task line 108, the finally clause after a function that has returned:
\* is_running is cleared.
WorkerFinally(t) ==
    /\ workers[<<t, "done">>] > 0
    /\ tasks' = [tasks EXCEPT ![t].is_running = FALSE]
    /\ workers' = Move(workers, t, "done", "returned")
    /\ UNCHANGED <<sched_is_running, scheduler_thread, loops, tick_now>>
    /\ UNCHANGED not_sched

\* _run_task line 109: next_run is recomputed from the completion time, and
\* the worker thread ends.
WorkerNextRun(t, from) ==
    /\ from \in {"returned", "caught"}
    /\ workers[<<t, from>>] > 0
    /\ tasks' = [tasks EXCEPT ![t].next_run = CalculateNextRun(t, tick_now)]
    /\ workers' = Leave(workers, t, from)
    /\ UNCHANGED <<sched_is_running, scheduler_thread, loops, tick_now>>
    /\ UNCHANGED not_sched

\* Time passes by one poll interval.
Tock ==
    /\ tick_now < MaxTick
    /\ tick_now' = tick_now + 1
    /\ UNCHANGED <<sched_is_running, scheduler_thread, loops, tasks, workers>>
    /\ UNCHANGED not_sched

SchedNext ==
    \/ Start
    \/ Stop
    \/ StopJoin
    \/ \E l \in BagToSet(loops) : LoopTest(l)
    \/ \E p \in BagToSet(in_pass) : LoopNow(p)
    \/ \E p \in BagToSet(in_pass) : LoopTask(p)
    \/ \E p \in BagToSet(in_pass) : LoopSleep(p)
    \/ \E t \in TaskNames : WorkerCheck(t)
    \/ \E t \in TaskNames : WorkerSet(t)
    \/ \E t \in TaskNames : \E raise \in BOOLEAN : WorkerFnEnd(t, raise)
    \/ \E t \in TaskNames : \E from \in {"returned", "caught"} : WorkerNextRun(t, from)
    \/ Tock

\* The scheduler of create_default_scheduler. The functions of its four tasks
\* (search_and_process, run_price_alerts, cleanup_database, heartbeat) catch
\* what they raise or raise nothing, so their executions end by return.
WiringNext ==
    \/ Start
    \/ Stop
    \/ StopJoin
    \/ \E l \in BagToSet(loops) : LoopTest(l)
    \/ \E p \in BagToSet(in_pass) : LoopNow(p)
    \/ \E p \in BagToSet(in_pass) : LoopTask(p)
    \/ \E p \in BagToSet(in_pass) : LoopSleep(p)
    \/ \E t \in DefaultTaskNames : WorkerCheck(t)
    \/ \E t \in DefaultTaskNames : WorkerSet(t)
    \/ \E t \in DefaultTaskNames : WorkerLastRun(t)
    \/ \E t \in DefaultTaskNames : WorkerFnEnd(t, FALSE)
    \/ \E t \in DefaultTaskNames : WorkerNextRun(t, "returned")
    \/ Tock

(***************************************************************************)
(*              start()/stop() calls, with the calls remembered            *)
(***************************************************************************)

\* `lifecycle` keeps the two most recent calls.
Remember(log, op) == IF Len(log) = 2 THEN <<log[2], op>> ELSE Append(log, op)
LastCall == IF lifecycle = <<>> THEN "none" ELSE lifecycle[Len(lifecycle)]

\* A start() without the guard of lines 140-142: every call makes a loop thread.
CallStartUnguarded ==
    /\ ~stopping
    /\ scheduler_thread < MaxLoops
    /\ LiveThreads < MaxThreads
    /\ lifecycle' = Remember(lifecycle, "start")
    /\ sched_is_running' = TRUE
    /\ scheduler_thread' = scheduler_thread + 1
    /\ loops' = loops (+) One([wake_at |-> tick_now])
    /\ UNCHANGED <<tasks, workers, tick_now, in_pass, stopping>>
    /\ UNCHANGED not_scheduler

\* start(), lines 138-152, as Start, and the call is remembered.
CallStart ==
    /\ ~stopping
    /\ lifecycle' = Remember(lifecycle, "start")
    /\ IF sched_is_running
       THEN UNCHANGED <<sched_is_running, scheduler_thread, loops>>
       ELSE /\ scheduler_thread < MaxLoops
            /\ LiveThreads < MaxThreads
            /\ sched_is_running' = TRUE
            /\ scheduler_thread' = scheduler_thread + 1
            /\ loops' = loops (+) One([wake_at |-> tick_now])
    /\ UNCHANGED <<tasks, workers, tick_now, in_pass, stopping>>
    /\ UNCHANGED not_scheduler

\* A stop() that also ends the worker threads: executions in progress are cut
\* off. The code does not do this; ThmC22_StopLeavesExecutions tells the two apart.
CallStopCancelling ==
    /\ ~stopping
    /\ lifecycle' = Remember(lifecycle, "stop")
    /\ IF ~sched_is_running
       THEN UNCHANGED <<sched_is_running, workers, stopping>>
       ELSE /\ sched_is_running' = FALSE
            /\ workers' = [k \in DOMAIN workers |-> 0]
            /\ stopping' = TRUE
    /\ UNCHANGED <<scheduler_thread, loops, tasks, tick_now, in_pass>>
    /\ UNCHANGED not_scheduler

\* stop(), lines 156-159, as Stop, and the call is remembered; it returns
\* with StopJoin (or at once, when the scheduler was not running).
CallStop ==
    /\ ~stopping
    /\ lifecycle' = Remember(lifecycle, "stop")
    /\ IF ~sched_is_running
       THEN UNCHANGED <<sched_is_running, stopping>>
       ELSE /\ sched_is_running' = FALSE
            /\ stopping' = TRUE
    /\ UNCHANGED <<scheduler_thread, loops, tasks, workers, tick_now, in_pass>>
    /\ UNCHANGED not_scheduler

LifecycleNext ==
    \/ CallStart
    \/ CallStop
    \/ StopJoin
    \/ \E l \in BagToSet(loops) : LoopTest(l)
    \/ \E p \in BagToSet(in_pass) : LoopNow(p)
    \/ \E p \in BagToSet(in_pass) : LoopTask(p)
    \/ \E p \in BagToSet(in_pass) : LoopSleep(p)
    \/ \E t \in TaskNames : WorkerCheck(t)
    \/ \E t \in TaskNames : WorkerSet(t)
    \/ \E t \in TaskNames : \E raise \in BOOLEAN : WorkerFnEnd(t, raise)
    \/ \E t \in TaskNames : \E from \in {"returned", "caught"} : WorkerNextRun(t, from)
    \/ Tock

(***************************************************************************)
(*                 TASK SWITCHES (scheduler.py lines 62-78)                *)
(***************************************************************************)

not_switch == <<loop_vars, store_vars, agent_vars, log_vars, conn_vars>>

\* enable_task(name) for a name held by the scheduler: the first task of that
\* name gets enabled = True, and True is returned.
EnableTask(t) ==
    /\ t \in Range(registry)
    /\ tasks' = [tasks EXCEPT ![t].enabled = TRUE]
    /\ UNCHANGED <<sched_is_running, scheduler_thread, loops, workers, tick_now, call_vars>>
    /\ UNCHANGED not_switch

\* disable_task(name) for a name held by the scheduler: the first task of that
\* name gets enabled = False, and True is returned.
DisableTask(t) ==
    /\ t \in Range(registry)
    /\ tasks' = [tasks EXCEPT ![t].enabled = FALSE]
    /\ UNCHANGED <<sched_is_running, scheduler_thread, loops, workers, tick_now, call_vars>>
    /\ UNCHANGED not_switch

\* The scheduler with its task switches: the calls of SchedNext and
\* enable_task/disable_task at any time, on two tasks of any function.
TaskNext ==
    \/ Start
    \/ Stop
    \/ StopJoin
    \/ \E l \in BagToSet(loops) : LoopTest(l)
    \/ \E p \in BagToSet(in_pass) : LoopNow(p)
    \/ \E p \in BagToSet(in_pass) : LoopTask(p)
    \/ \E p \in BagToSet(in_pass) : LoopSleep(p)
    \/ \E t \in TaskNames : WorkerCheck(t)
    \/ \E t \in TaskNames : WorkerSet(t)
    \/ \E t \in TaskNames : \E raise \in BOOLEAN : WorkerFnEnd(t, raise)
    \/ \E t \in TaskNames : \E from \in {"returned", "caught"} : WorkerNextRun(t, from)
    \/ \E t \in TaskNames : EnableTask(t)
    \/ \E t \in TaskNames : DisableTask(t)
    \/ Tock

(***************************************************************************)
(*                 THE SCHEDULER'S TASK LIST (scheduler.py)                *)
(***************************************************************************)

\* Bound of the task-list model.
MaxTasks == 4        \* tasks held by the scheduler at the same time

\* Names a caller builds tasks with.
RegistryNames == TaskNames \cup {"cleanup"}

not_registry == <<sched_is_running, scheduler_thread, loops, tasks, workers, tick_now,
                  loop_vars, store_vars, agent_vars, log_vars, conn_vars>>

\* add_task: self.tasks.append(task); the name is not looked at.
AddTask(n) ==
    /\ Len(registry) < MaxTasks
    /\ registry' = Append(registry, n)
    /\ UNCHANGED not_registry

\* Index of the first task of a name, 0 when there is none.
FirstNamed(reg, n) ==
    IF \E i \in DOMAIN reg : reg[i] = n
    THEN CHOOSE i \in DOMAIN reg : reg[i] = n /\ \A j \in 1..(i - 1) : reg[j] # n
    ELSE 0

\* remove_task: del self.tasks[i] for the first task of that name; a name
\* that is not held leaves the list as it is (and returns False).
RemoveTask(n) ==
    /\ registry' = IF FirstNamed(registry, n) = 0 THEN registry
                   ELSE SubSeq(registry, 1, FirstNamed(registry, n) - 1)
                        \o SubSeq(registry, FirstNamed(registry, n) + 1, Len(registry))
    /\ UNCHANGED not_registry

RegistryNext ==
    \/ \E n \in RegistryNames : AddTask(n)
    \/ \E n \in RegistryNames : RemoveTask(n)

(***************************************************************************)
(*                 BINARY FLOATING POINT (Python float, SQLite REAL)       *)
(***************************************************************************)

\* Prices are Python floats and SQLite REAL values: IEEE 754 binary64 numbers,
\* with every operation rounded to the nearest representable value, ties to
\* even. A number is sign * mant * 2^exp with mant a natural number of exactly
\* Precision bits (or 0 for zero). The numbers met here are far from the
\* format's overflow and underflow limits, which are left out. A natural
\* number of any size is a sequence of digits in base Base, lowest first,
\* without leading zero digits.
Precision == 52 + 1    \* 52 stored bits and the implicit leading one
Base == 2 ^ 15

RECURSIVE BNorm(_)
BNorm(a) == IF a # <<>> /\ a[Len(a)] = 0 THEN BNorm(SubSeq(a, 1, Len(a) - 1)) ELSE a

RECURSIVE BFromNat(_)
BFromNat(n) == IF n = 0 THEN <<>> ELSE <<n % Base>> \o BFromNat(n \div Base)

RECURSIVE BToNat(_)
BToNat(a) == IF a = <<>> THEN 0 ELSE a[1] + Base * BToNat(Tail(a))

RECURSIVE BAddCarry(_, _, _)
BAddCarry(a, b, carry) ==
    IF a = <<>> /\ b = <<>> THEN (IF carry = 0 THEN <<>> ELSE <<carry>>)
    ELSE LET x == (IF a = <<>> THEN 0 ELSE a[1]) + (IF b = <<>> THEN 0 ELSE b[1]) + carry
         IN <<x % Base>> \o BAddCarry(IF a = <<>> THEN <<>> ELSE Tail(a),
                                      IF b = <<>> THEN <<>> ELSE Tail(b), x \div Base)
BAdd(a, b) == BAddCarry(a, b, 0)

\* a - b for a >= b.
RECURSIVE BSubBorrow(_, _, _)
BSubBorrow(a, b, borrow) ==
    IF a = <<>> THEN <<>>
    ELSE LET x == a[1] - (IF b = <<>> THEN 0 ELSE b[1]) - borrow
         IN <<x % Base>> \o BSubBorrow(Tail(a), IF b = <<>> THEN <<>> ELSE Tail(b),
                                       IF x < 0 THEN 1 ELSE 0)
BSub(a, b) == BNorm(BSubBorrow(a, b, 0))

\* -1, 0 or 1 as a is less than, equal to or greater than b.
RECURSIVE BCmpFrom(_, _, _)
BCmpFrom(a, b, i) ==
    IF i = 0 THEN 0
    ELSE IF a[i] < b[i] THEN -1
    ELSE IF a[i] > b[i] THEN 1
    ELSE BCmpFrom(a, b, i - 1)
BCmp(a, b) ==
    IF Len(a) < Len(b) THEN -1
    ELSE IF Len(a) > Len(b) THEN 1
    ELSE BCmpFrom(a, b, Len(a))

\* a * k + carry for a digit k.
RECURSIVE BMulDigit(_, _, _)
BMulDigit(a, k, carry) ==
    IF a = <<>> THEN (IF carry = 0 THEN <<>> ELSE <<carry>>)
    ELSE LET x == a[1] * k + carry
         IN <<x % Base>> \o BMulDigit(Tail(a), k, x \div Base)

RECURSIVE BMul(_, _)
BMul(a, b) ==
    IF a = <<>> \/ b = <<>> THEN <<>>
    ELSE BNorm(BAdd(BMulDigit(a, b[1], 0), <<0>> \o BMul(a, Tail(b))))

\* a * 2^k.
BShl(a, k) ==
    IF a = <<>> THEN <<>>
    ELSE BNorm([i \in 1..(k \div 15) |-> 0] \o BMulDigit(a, 2 ^ (k % 15), 0))

\* a \div 2^k.
BShr(a, k) ==
    LET skip == k \div 15
        r    == k % 15
        hi   == IF skip >= Len(a) THEN <<>> ELSE SubSeq(a, skip + 1, Len(a))
    IN BNorm([i \in 1..Len(hi) |->
                 (hi[i] \div 2 ^ r)
                 + (IF i < Len(hi) THEN (hi[i + 1] % 2 ^ r) * 2 ^ (15 - r) ELSE 0)])

\* Number of binary digits of a.
RECURSIVE BitsOfDigit(_)
BitsOfDigit(d) == IF d = 0 THEN 0 ELSE 1 + BitsOfDigit(d \div 2)
BBitLen(a) == IF a = <<>> THEN 0 ELSE 15 * (Len(a) - 1) + BitsOfDigit(a[Len(a)])

FZero == [sign |-> 0, exp |-> 0, mant |-> <<>>]

\* The float nearest to (-1)^sign * (m + f) * 2^e, where f is some fraction
\* in (0, 1) when sticky holds and 0 otherwise: round to nearest, ties to even.
FRound(sign, m, e, sticky) ==
    IF m = <<>> THEN FZero
    ELSE LET len == BBitLen(m) IN
         IF len <= Precision
         THEN [sign |-> sign, exp |-> e - (Precision - len), mant |-> BShl(m, Precision - len)]
         ELSE LET shift == len - Precision
                  q     == BShr(m, shift)
                  rest  == BSub(m, BShl(q, shift))
                  half  == BCmp(rest, BShl(<<1>>, shift - 1))
                  up    == half > 0 \/ (half = 0 /\ (sticky \/ q[1] % 2 = 1))
                  q2    == IF up THEN BAdd(q, <<1>>) ELSE q
              IN IF BBitLen(q2) > Precision
                 THEN [sign |-> sign, exp |-> e + shift + 1, mant |-> BShr(q2, 1)]
                 ELSE [sign |-> sign, exp |-> e + shift, mant |-> q2]

\* float(n) for an integer n.
Flt(n) == FRound(IF n >= 0 THEN 0 ELSE 1, BFromNat(IF n >= 0 THEN n ELSE 0 - n), 0, FALSE)

\* The integer an integral float below 2^31 stands for.
FNat(x) == IF x.exp >= 0 THEN BToNat(BShl(x.mant, x.exp)) ELSE BToNat(BShr(x.mant, 0 - x.exp))

\* x * y.
FMul(x, y) ==
    IF x.mant = <<>> \/ y.mant = <<>> THEN FZero
    ELSE FRound((x.sign + y.sign) % 2, BMul(x.mant, y.mant), x.exp + y.exp, FALSE)

\* Long division, one digit of base Base per turn (Knuth's algorithm D). The
\* digit q with q * b <= r < (q + 1) * b, for r < b * Base: the quotient of
\* the leading digits is never below it, and is lowered until it fits.
RECURSIVE BFitDigit(_, _, _)
BFitDigit(r, b, q) == IF BCmp(BNorm(BMulDigit(b, q, 0)), r) > 0 THEN BFitDigit(r, b, q - 1) ELSE q
BDivDigit(r, b) ==
    LET lead == IF Len(r) > Len(b) THEN r[Len(b) + 1] * Base + r[Len(b)]
                ELSE IF Len(r) = Len(b) THEN r[Len(b)]
                ELSE 0
        est  == lead \div b[Len(b)]
    IN BFitDigit(r, b, IF est < Base THEN est ELSE Base - 1)

\* Quotient and remainder of n by b # 0, highest digit first. Each level is
\* evaluated before the next one is entered (the tests that never hold read
\* the values), which keeps the evaluation stack flat.
RECURSIVE BDivMod(_, _)
BDivMod(n, b) ==
    IF n = <<>> THEN [q |-> <<>>, rem |-> <<>>]
    ELSE LET hi == BDivMod(Tail(n), b)
         IN IF Len(hi.rem) > Len(b) THEN hi   \* never: the remainder is below b
            ELSE LET r == BNorm(<<n[1]>> \o hi.rem)
                 IN IF Len(r) > Len(b) + 1 THEN hi   \* never, for the same reason
                    ELSE LET dg == BDivDigit(r, b)
                         IN IF dg < 0 THEN hi   \* never: a digit is in 0 .. Base - 1
                            ELSE [q   |-> BNorm(<<dg>> \o hi.q),
                                  rem |-> BSub(r, BNorm(BMulDigit(b, dg, 0)))]

\* x / y for y # 0. The quotient is taken to Precision + 2 bits or more, and
\* a remainder other than 0 counts as a fraction below the last bit.
QuotientBits == Precision + 2
FDiv(x, y) ==
    IF x.mant = <<>> THEN FZero
    ELSE LET scale == 15 - BitsOfDigit(y.mant[Len(y.mant)])
             d     == BDivMod(BShl(x.mant, QuotientBits + scale), BShl(y.mant, scale))
         IN FRound((x.sign + y.sign) % 2, d.q, x.exp - y.exp - QuotientBits, d.rem # <<>>)

\* x - y.
FSub(x, y) ==
    LET e  == IF x.mant = <<>> THEN y.exp
              ELSE IF y.mant = <<>> THEN x.exp
              ELSE IF x.exp < y.exp THEN x.exp ELSE y.exp
        a  == BShl(x.mant, x.exp - e)
        b  == BShl(y.mant, y.exp - e)
        ys == 1 - y.sign
    IN IF x.sign = ys THEN FRound(x.sign, BAdd(a, b), e, FALSE)
       ELSE IF BCmp(a, b) >= 0 THEN FRound(x.sign, BSub(a, b), e, FALSE)
       ELSE FRound(ys, BSub(b, a), e, FALSE)

\* -1, 0 or 1 as |x| is less than, equal to or greater than |y|, for x and y
\* other than zero: both mantissas have Precision bits.
FCmpMagnitude(x, y) ==
    IF x.exp < y.exp THEN -1
    ELSE IF x.exp > y.exp THEN 1
    ELSE BCmp(x.mant, y.mant)

\* x < y and x <= y.
FLess(x, y) ==
    IF x.mant = <<>> THEN y.mant # <<>> /\ y.sign = 0
    ELSE IF y.mant = <<>> THEN x.sign = 1
    ELSE IF x.sign # y.sign THEN x.sign = 1
    ELSE IF x.sign = 0 THEN FCmpMagnitude(x, y) < 0
    ELSE FCmpMagnitude(x, y) > 0
FLeq(x, y) == ~FLess(y, x)
(***************************************************************************)
(*                     TRACKED-ITEM STORE (database.py)                    *)
(***************************************************************************)

\* Bounds of the store model.
MaxOps == 2          \* store operations begun in one behaviour

\* Text is a sequence of characters, so that case folding, trimming and the
\* "_" concatenation of the identity string are computed, not assumed.
Lower(ch) == CASE ch = "A" -> "a" [] ch = "B" -> "b" [] ch = "C" -> "c" [] OTHER -> ch
LowerText(s) == [i \in 1..Len(s) |-> Lower(s[i])]
RECURSIVE LStrip(_)
LStrip(s) == IF s # <<>> /\ Head(s) = " " THEN LStrip(Tail(s)) ELSE s
RECURSIVE RStrip(_)
RStrip(s) == IF s # <<>> /\ s[Len(s)] = " " THEN RStrip(SubSeq(s, 1, Len(s) - 1)) ELSE s
Strip(s) == RStrip(LStrip(s))

\* An offer: a price (a float) and its currency.
RON(n) == <<Flt(n), "RON">>
EUR(n) == <<Flt(n), "EUR">>

\* Candidates the fetch can produce (scraper.Accommodation); url, image_url,
\* description and amenities are carried through unchanged and are left out.
Titles     == {<<"A", " ">>, <<"a">>, <<"B">>}
Locations  == {<<"c">>}
Platforms  == {<<"k">>}
Offers     == {RON(100), RON(80), EUR(80)}
Ratings    == {Flt(8)}
Candidate(t, l, p, o, r) == [title |-> t, location |-> l, platform |-> p, price |-> o[1],
                             currency |-> o[2], rating |-> r]
\* Every offer under the titles "a" and "B", and one offer under "A ", which
\* differs from "a" by case and a trailing blank only.
Candidates ==
    {Candidate(t, l, p, o, r) :
        t \in Titles \ {<<"A", " ">>}, l \in Locations, p \in Platforms, o \in Offers, r \in Ratings}
    \cup {Candidate(<<"A", " ">>, l, p, RON(100), r) :
        l \in Locations, p \in Platforms, r \in Ratings}

\* _create_accommodation_hash: md5 of "<title>_<location>_<platform>" after
\* lower().strip() of title and location. The digest is taken as injective on
\* the string it hashes, so the hashed string stands for the hash.
CreateAccommodationHash(c) ==
    LowerText(Strip(c.title)) \o <<"_">> \o LowerText(Strip(c.location)) \o <<"_">> \o c.platform

\* SELECT id ... WHERE accommodation_hash = ? on table contents acc.
ExistingIds(acc, c) == {i \in DOMAIN acc : acc[i].accommodation_hash = CreateAccommodationHash(c)}

\* save_accommodation line 131: has the price or the currency changed.
PriceChanged(row, c) == row.price # c.price \/ row.currency # c.currency

\* save_price_history: INSERT on a connection of its own. While another
\* connection holds an uncommitted write on the file the INSERT cannot take
\* the write lock and ends in sqlite3.OperationalError (database is locked).
SavePriceHistory(ph, write_locked, id, price, currency, at) ==
    IF write_locked
    THEN [status |-> "OperationalError", ph |-> ph]
    ELSE [status |-> "ok",
          ph |-> Append(ph, [accommodation_id |-> id, price |-> price,
                             currency |-> currency, timestamp |-> at])]

\* The row an INSERT of candidate c creates (column defaults of init_database).
NewRow(c, at) ==
    [title |-> c.title, location |-> c.location, platform |-> c.platform,
     price |-> c.price, currency |-> c.currency, rating |-> c.rating,
     first_seen |-> at, last_seen |-> at, times_seen |-> 1,
     accommodation_hash |-> CreateAccommodationHash(c), is_notified |-> FALSE]

\* An UPDATE that stamps first_seen instead of last_seen.
UpdatedRowFirstSeen(row, c, at) ==
    [row EXCEPT !.first_seen = at, !.times_seen = row.times_seen + 1,
                !.price = c.price, !.currency = c.currency, !.rating = c.rating]

\* An UPDATE that also clears is_notified, so that a changed item is announced again.
UpdatedRowUnnotified(row, c, at) ==
    [row EXCEPT !.last_seen = at, !.times_seen = row.times_seen + 1,
                !.price = c.price, !.currency = c.currency, !.rating = c.rating,
                !.is_notified = FALSE]

\* An UPDATE that also overwrites the title with the candidate's spelling.
UpdatedRowRetitled(row, c, at) ==
    [row EXCEPT !.last_seen = at, !.times_seen = row.times_seen + 1,
                !.price = c.price, !.currency = c.currency, !.rating = c.rating,
                !.title = c.title]

\* The UPDATE of an existing row (save_accommodation lines 134-140).
UpdatedRow(row, c, at) ==
    [row EXCEPT !.last_seen = at, !.times_seen = row.times_seen + 1,
                !.price = c.price, !.currency = c.currency, !.rating = c.rating]

\* AUTOINCREMENT: one more than the largest id ever used.
NextId(acc) == IF DOMAIN acc = {} THEN 1
               ELSE (CHOOSE i \in DOMAIN acc : \A j \in DOMAIN acc : j <= i) + 1

\* _row_to_accommodation: the Accommodation built from a row (the id is dropped).
RowToAccommodation(row) ==
    [title |-> row.title, location |-> row.location, platform |-> row.platform,
     price |-> row.price, currency |-> row.currency, rating |-> row.rating]

\* Fractions of a second datetime.now() can carry, in microseconds.
Microseconds == {0, 500000}

\* datetime.now() is local time with microseconds; the sqlite3 adapter binds
\* it as the text 'YYYY-MM-DD HH:MM:SS[.ffffff]' (the fraction is left out
\* when it is 0), which SQLite compares, as text, with the UTC text
\* 'YYYY-MM-DD HH:MM:SS' written by CURRENT_TIMESTAMP.
LocalNow(at, offset, usec) == [hour |-> at + offset, usec |-> usec]

\* stamp >= cutoff as SQLite compares the two texts: a stamp of the cutoff's
\* second is a proper prefix of a cutoff text that carries a fraction, and
\* sorts before it.
StampGeq(stamp, cutoff) ==
    stamp > cutoff.hour \/ (stamp = cutoff.hour /\ cutoff.usec = 0)

\* get_new_accommodations line 188: cutoff_time = datetime.now() - hours_back.
NewCutoff(at, offset, usec, hours_back) ==
    [LocalNow(at, offset, usec) EXCEPT !.hour = @ - hours_back]

\* Rows selected by get_new_accommodations (line 194).
NewIds(acc, at, offset, usec, hours_back) ==
    {i \in DOMAIN acc : StampGeq(acc[i].first_seen, NewCutoff(at, offset, usec, hours_back))
                        /\ ~acc[i].is_notified}

\* ORDER BY first_seen DESC: every listing of the ids with first_seen
\* non-increasing (rows with equal first_seen come in either order).
RECURSIVE NewestFirst(_, _)
NewestFirst(acc, ids) ==
    IF ids = {} THEN {<<>>}
    ELSE UNION {{<<i>> \o s : s \in NewestFirst(acc, ids \ {i})} :
                i \in {j \in ids : \A k \in ids : acc[j].first_seen >= acc[k].first_seen}}

\* An UPDATE without the WHERE clause.
MarkAllAsNotified(acc, ids) ==
    [i \in DOMAIN acc |-> [acc[i] EXCEPT !.is_notified = TRUE]]

\* mark_as_notified: UPDATE ... WHERE id IN (ids).
MarkAsNotifiedOn(acc, ids) ==
    [i \in DOMAIN acc |-> IF i \in ids THEN [acc[i] EXCEPT !.is_notified = TRUE] ELSE acc[i]]

\* get_price_drops lines 223-224: datetime('now', '-7 days') and
\* datetime('now', '-14 days'), in hours; both sides are UTC, without fraction.
RecentWindow     == 168
ComparisonWindow == 336

\* A join that leaves out the comparison-side window (line 224).
PriceChangesAnyAge(acc, ph, at) ==
    {[id |-> ph[j].accommodation_id, ph1 |-> j, ph2 |-> k,
      current_price |-> ph[j].price, currency |-> ph[j].currency,
      previous_price |-> ph[k].price,
      current_time |-> ph[j].timestamp, previous_time |-> ph[k].timestamp] :
     <<j, k>> \in {q \in (DOMAIN ph) \X (DOMAIN ph) :
                     /\ ph[q[1]].accommodation_id \in DOMAIN acc
                     /\ ph[q[1]].accommodation_id = ph[q[2]].accommodation_id
                     /\ ph[q[1]].timestamp > ph[q[2]].timestamp
                     /\ ph[q[1]].timestamp >= at - RecentWindow}}

\* The rows of the price_changes CTE: every pair of observations (ph1, ph2) of
\* one item with ph1 later than ph2, ph1 inside the recent window and ph2
\* inside the comparison window. ph1 and ph2 are the rowids of the pair; they
\* keep apart rows that the query returns as equal tuples.
PriceChanges(acc, ph, at) ==
    {[id |-> ph[j].accommodation_id, ph1 |-> j, ph2 |-> k,
      current_price |-> ph[j].price, currency |-> ph[j].currency,
      previous_price |-> ph[k].price,
      current_time |-> ph[j].timestamp, previous_time |-> ph[k].timestamp] :
     <<j, k>> \in {q \in (DOMAIN ph) \X (DOMAIN ph) :
                     /\ ph[q[1]].accommodation_id \in DOMAIN acc
                     /\ ph[q[1]].accommodation_id = ph[q[2]].accommodation_id
                     /\ ph[q[1]].timestamp > ph[q[2]].timestamp
                     /\ ph[q[1]].timestamp >= at - RecentWindow
                     /\ ph[q[2]].timestamp >= at - ComparisonWindow}}

\* Line 218: (ph2.price - ph1.price) / ph2.price * 100 on REAL columns, every
\* operation rounded; a previous price of 0 gives NULL.
Percentage(previous, current) == FMul(FDiv(FSub(previous, current), previous), Flt(100))

\* The percentages of the prices the model's candidates and files carry,
\* worked out once: pairs << <<previous, current>>, percentage >>.
ModelPrices == {Flt(100), Flt(95), Flt(80), Flt(71)}
PercentageTable ==
    {<<p, Percentage(p[1], p[2])>> : p \in {q \in ModelPrices \X ModelPrices : q[1].mant # <<>>}}

PctIsNull(r) == r.previous_price.mant = <<>>
PriceDropPercentage(r) ==
    LET known == {e \in PercentageTable : e[1] = <<r.previous_price, r.current_price>>}
    IN  IF known # {} THEN (CHOOSE e \in known : TRUE)[2]
        ELSE Percentage(r.previous_price, r.current_price)

\* WHERE price_drop_percentage >= ? (line 227); NULL never passes.
MeetsThreshold(r, threshold) == ~PctIsNull(r) /\ FLeq(threshold, PriceDropPercentage(r))

\* r1's percentage is at least r2's.
PctGeq(r1, r2) == FLeq(PriceDropPercentage(r2), PriceDropPercentage(r1))

\* ORDER BY price_drop_percentage DESC (line 228): every listing of the rows
\* with the percentage non-increasing (ties come in either order).
RECURSIVE OrderByDropDesc(_)
OrderByDropDesc(rows) ==
    IF rows = {} THEN {<<>>}
    ELSE UNION {{<<r>> \o s : s \in OrderByDropDesc(rows \ {r})} :
                r \in {x \in rows : \A y \in rows : PctGeq(x, y)}}

\* get_price_drops: the possible result lists for a threshold.
GetPriceDropsOn(acc, ph, at, threshold) ==
    OrderByDropDesc({r \in PriceChanges(acc, ph, at) : MeetsThreshold(r, threshold)})

\* get_default_config: the search criteria the filters are built from.
MaxPrice         == 500
CriteriaCurrency == "RON"
MinRating        == 7

\* config.SearchCriteria, fields in declaration order; dates are day numbers.
SearchCriteria(dest, ci, co, guests, max_price, currency, types, min_rating) ==
    [destination |-> dest, check_in |-> ci, check_out |-> co,
     guests |-> guests, max_price |-> max_price, currency |-> currency,
     property_types |-> types, min_rating |-> min_rating]

\* get_default_config: check-in 30 days and check-out 32 days after start-up.
DefaultCriteria ==
    SearchCriteria("Bucuresti", 30, 32, 2, Flt(MaxPrice), CriteriaCurrency,
                   <<"hotel", "apartment">>, Flt(MinRating))

\* _create_criteria_hash, dates kept in the hashed text.
CreateCriteriaHashWithDates(criteria) ==
    << <<"check_in", criteria.check_in>>, <<"check_out", criteria.check_out>>,
       <<"currency", criteria.currency>>, <<"destination", criteria.destination>>,
       <<"guests", criteria.guests>>, <<"max_price", criteria.max_price>>,
       <<"min_rating", criteria.min_rating>>,
       <<"property_types", criteria.property_types>> >>

\* _create_criteria_hash: asdict, pop check_in and check_out, json.dumps with
\* sort_keys; the digest stands for the text it is computed from.
CreateCriteriaHash(criteria) ==
    << <<"currency", criteria.currency>>, <<"destination", criteria.destination>>,
       <<"guests", criteria.guests>>, <<"max_price", criteria.max_price>>,
       <<"min_rating", criteria.min_rating>>,
       <<"property_types", criteria.property_types>> >>

\* json.dumps(asdict(criteria), default=str), line 176: every field, in
\* declaration order.
CriteriaJson(criteria) ==
    << <<"destination", criteria.destination>>, <<"check_in", criteria.check_in>>,
       <<"check_out", criteria.check_out>>, <<"guests", criteria.guests>>,
       <<"max_price", criteria.max_price>>, <<"currency", criteria.currency>>,
       <<"property_types", criteria.property_types>>,
       <<"min_rating", criteria.min_rating>> >>

\* save_search_record: INSERT INTO searches, timestamp CURRENT_TIMESTAMP.
SaveSearchRecordOn(se, criteria, results_count, at) ==
    Append(se, [criteria_hash |-> CreateCriteriaHash(criteria),
                criteria_json |-> CriteriaJson(criteria),
                timestamp |-> at, results_count |-> results_count])

\* save_notification_record: INSERT INTO notifications.
SaveNotificationRecordOn(no, ids, type, success, at) ==
    Append(no, [timestamp |-> at, accommodation_ids |-> ids,
                notification_type |-> type, success |-> success])

\* The rows of a time-stamped table that a DELETE ... WHERE timestamp < cutoff
\* keeps: those whose stamp text does not sort before the cutoff text.
KeptRows(rows, cutoff) == SelectSeq(rows, LAMBDA r : StampGeq(r.timestamp, cutoff))

\* clean_old_data line 311: cutoff_time = datetime.now() - timedelta(days),
\* local time, in hours.
CleanCutoff(at, offset, usec, days_to_keep) ==
    [LocalNow(at, offset, usec) EXCEPT !.hour = @ - days_to_keep * 24]

(***************************************************************************)
(* The database file outlives the process: init_database only creates the  *)
(* tables that are missing. The store therefore starts on any of a family  *)
(* of files: each identity is absent or has a price timeline               *)
(* <<price, currency, time>>, times relative to the start of the behaviour *)
(* (hour 0).                                                               *)
(***************************************************************************)
Seen(offer, at) == <<offer[1], offer[2], at>>
SeedTimelinesA ==
    { <<>>,
      << Seen(RON(100), -240) >>,
      << Seen(RON(100), -240), Seen(RON(80), -24) >>,
      << Seen(RON(100), -240), Seen(RON(95), -24) >>,
      << Seen(RON(100), -240), Seen(RON(71), -24) >>,
      << Seen(RON(100), -240), Seen(RON(80), -100), Seen(RON(100), -24) >>,
      << Seen(RON(100), -240), Seen(RON(95), -100), Seen(RON(80), -24) >>,
      << Seen(RON(100), -337), Seen(RON(80), -167) >> }
SeedTimelinesB ==
    { <<>>,
      << Seen(RON(100), -23) >> }

\* The files the store starts on, <<timeline of "A ", timeline of "B">>: every
\* timeline of "A " without "B", and "B" beside no "A " and beside the
\* shortest one.
SeedFiles ==
    {<<ta, <<>>>> : ta \in SeedTimelinesA}
    \cup {<<ta, tb>> : ta \in {<<>>, << Seen(RON(100), -240) >>}, tb \in SeedTimelinesB}

\* Local-time offsets of the host, in hours east of UTC.
MaxTz == 2
TimeZones == {0, MaxTz}

SeedObservations(id, timeline) ==
    [k \in 1..Len(timeline) |->
        [accommodation_id |-> id, price |-> timeline[k][1],
         currency |-> timeline[k][2], timestamp |-> timeline[k][3]]]

SeedRow(title, timeline) ==
    LET c == [title |-> title, location |-> <<"c">>, platform |-> <<"k">>,
              price |-> timeline[Len(timeline)][1],
              currency |-> timeline[Len(timeline)][2], rating |-> Flt(8)]
    IN [NewRow(c, timeline[1][3]) EXCEPT !.last_seen = timeline[Len(timeline)][3],
                                         !.times_seen = Len(timeline)]

\* The tables of the file holding timeline ta for "A " and tb for "B".
SeedAccommodations(ta, tb) ==
    LET rows == (IF ta = <<>> THEN <<>> ELSE <<SeedRow(<<"A", " ">>, ta)>>)
                \o (IF tb = <<>> THEN <<>> ELSE <<SeedRow(<<"B">>, tb)>>)
    IN [i \in 1..Len(rows) |-> rows[i]]
SeedPriceHistory(ta, tb) ==
    SeedObservations(1, ta) \o SeedObservations(IF ta = <<>> THEN 1 ELSE 2, tb)

\* The file's searches and notifications tables: one search and one failed
\* notification of item 1 for every time the first identity was observed.
SeedSearches(ta) ==
    [k \in 1..Len(ta) |-> [criteria_hash |-> CreateCriteriaHash(DefaultCriteria),
                           criteria_json |-> CriteriaJson(DefaultCriteria),
                           timestamp |-> ta[k][3], results_count |-> 1]]
SeedNotifications(ta) ==
    [k \in 1..Len(ta) |-> [timestamp |-> ta[k][3], accommodation_ids |-> <<1>>,
                           notification_type |-> "new_accommodations", success |-> FALSE]]

\* The contents of a database file.
Snapshot(acc, ph, se, seq, no) ==
    [accommodations |-> acc, price_history |-> ph, searches |-> se, sqlite_sequence |-> seq,
     notifications |-> no]

\* A file that is not a database SQLite can read: pages of two versions that
\* do not fit together.
Unreadable == [unreadable |-> TRUE]
Readable(b) == "unreadable" \notin DOMAIN b

\* The files that have each table as one of the files of `versions` has it.
Mixes(versions) ==
    { Snapshot(m[1], m[2], m[3], m[4], m[5]) :
        m \in { v.accommodations : v \in versions } \X { v.price_history : v \in versions }
               \X { v.searches : v \in versions } \X { v.sqlite_sequence : v \in versions }
               \X { v.notifications : v \in versions } }

\* No shutil.copy2 from or onto the database file is in progress.
NoCopy == [op |-> "none", by |-> "none"]

\* The database file as init_database leaves it: SQLite reads it, nothing
\* copies it; n counts the copies begun.
SoundFile == [state |-> "ok", copy |-> NoCopy, n |-> 0]

\* Threads that call the store concurrently, none of them inside a call.
Callers == {1, 2}
NoPrev == [status |-> "none"]
NoCall == [pc |-> "idle", n |-> 0]
NoCalls == [t \in Callers |-> NoCall]

NoRet == [n |-> 0, op |-> "none", status |-> "ok"]
NoLog == [n |-> 0]
NoPass == [pc |-> "idle", n |-> 0]
NoPasses == [t \in Callers |-> NoPass]
NoArg == [fn |-> "none"]
NoResult == [done |-> FALSE]

\* The process starts on the file of timelines ta and tb. cleanup_database
\* copies the file before it prunes it, so a file that has been in use comes
\* with a backup: here the copy made when the file had its present contents.
StartsOn(ta, tb) ==
    /\ accommodations = SeedAccommodations(ta, tb)
    /\ price_history = SeedPriceHistory(ta, tb)
    /\ searches = SeedSearches(ta)
    /\ sqlite_sequence = Len(SeedSearches(ta))
    /\ notifications = SeedNotifications(ta)
    /\ backups = {Snapshot(SeedAccommodations(ta, tb), SeedPriceHistory(ta, tb),
                           SeedSearches(ta), Len(SeedSearches(ta)), SeedNotifications(ta))}
    /\ db_file = SoundFile

\* The store, the notifier and the callers when the process has started on
\* one of the files.
StoreStartsOn(files) ==
    /\ \E f \in files : StartsOn(f[1], f[2])
    /\ calls = NoCalls
    /\ write_lock = 0
    /\ now = 0
    /\ tz \in TimeZones
    /\ ret = NoRet
    /\ sent_accommodations = {}
    /\ delivered = {}
    /\ pass_log = NoLog
    /\ passes = NoPasses
    /\ fn_arg = NoArg
    /\ fn_ret = NoResult

StoreInitOn(files) == SchedInit /\ StoreStartsOn(files)

StoreInit == StoreInitOn(SeedFiles)

(***************************************************************************)
(* Every statement runs on a connection of SQLite's default journal mode:  *)
(* reads go through while another connection holds the write lock; a write *)
(* waits for the lock up to the 5 second busy timeout and then raises      *)
(* sqlite3.OperationalError. A write taken while the lock is held is that  *)
(* timeout; the same write taken after the release is the wait that ends   *)
(* in time. The only lock held across steps is the one of an uncommitted   *)
(* INSERT in save_accommodation; every other operation writes and commits  *)
(* in one step.                                                            *)
(*                                                                         *)
(* Every call opens the file anew (sqlite3.connect in each method). While  *)
(* restore_database has truncated the file and not yet written it, a       *)
(* statement raises sqlite3.OperationalError (no such table); on a file    *)
(* whose pages do not fit together it raises sqlite3.DatabaseError         *)
(* (database disk image is malformed). Nothing is written in either case.  *)
(***************************************************************************)

\* What a statement meets when it opens the file.
FileStatus ==
    CASE db_file.state = "truncated" -> "OperationalError"
      [] db_file.state = "malformed" -> "DatabaseError"
      [] OTHER                       -> "ok"

\* The status of a statement that writes.
WriteStatus ==
    IF FileStatus # "ok" THEN FileStatus
    ELSE IF write_lock # 0 THEN "OperationalError" ELSE "ok"

\* save_price_history on the file as it is.
SavePriceHistoryOnFile(ph, id, price, currency, at) ==
    IF FileStatus # "ok"
    THEN [status |-> FileStatus, ph |-> ph]
    ELSE SavePriceHistory(ph, write_lock # 0, id, price, currency, at)

\* The thread is inside save_accommodation.
InCall(t) == calls[t].pc \in {"selected", "history_saved", "inserted"}

\* Store operations begun so far: the one-step operations and the
\* save_accommodation calls.
CallsBegun == SumOver([t \in Callers |-> calls[t].n], Callers)
OpsBegun == ret.n + CallsBegun + db_file.n

\* Some caller thread is free to make a call: it is inside no
\* save_accommodation and not the thread that is copying the file.
SomeCallerFree ==
    Cardinality({t \in Callers : ~InCall(t)}) > (IF db_file.copy.by = "call" THEN 1 ELSE 0)

\* Arguments of the store operations.
HoursBack  == {24}
Thresholds == {Flt(20), Flt(29)}
IdLists    == {{}, {1}, {1, 2}}
DaysToKeep == {7}
MaxNow     == 1

\* What the call that thread t made before this one came to.
PreviousCall(t) ==
    IF calls[t].pc \in {"returned", "raised"}
    THEN [status |-> calls[t].status, arg |-> calls[t].arg, value |-> calls[t].value]
    ELSE NoPrev

\* Lines 115-124 of save_accommodation(c) in thread t: connect and SELECT id,
\* price, currency of the identity.
BeginCall(t, c) ==
    LET ex == ExistingIds(accommodations, c) IN
    [calls EXCEPT ![t] =
        IF FileStatus # "ok"
        THEN [pc |-> "raised", n |-> calls[t].n + 1, arg |-> c, existing |-> <<>>,
              committed |-> {}, status |-> FileStatus, value |-> 0, prev |-> PreviousCall(t)]
        ELSE
        [pc |-> "selected", n |-> calls[t].n + 1, arg |-> c,
         existing |-> IF ex = {} THEN <<>>
                      ELSE LET id == CHOOSE i \in ex : TRUE IN
                           <<[id |-> id, price |-> accommodations[id].price,
                              currency |-> accommodations[id].currency]>>,
         committed |-> {}, status |-> "running", value |-> 0, prev |-> PreviousCall(t)]]

\* The thread is inside the existing-identity branch, before the UPDATE.
AtUpdate(t) ==
    \/ calls[t].pc = "history_saved"
    \/ /\ calls[t].pc = "selected"
       /\ calls[t].existing # <<>>
       /\ ~PriceChanged(calls[t].existing[1], calls[t].arg)

\* upsert(candidate), first statement: save_accommodation is called and SELECTs.
UpsertSelect(t, c) ==
    /\ ~InCall(t)
    /\ SomeCallerFree
    /\ OpsBegun < MaxOps
    /\ calls' = BeginCall(t, c)
    /\ UNCHANGED <<accommodations, price_history, now, tz, ret, write_lock>>
    /\ UNCHANGED <<sched_vars, agent_vars, log_vars>>

\* Lines 131-132: the price or currency read differs from the candidate's, so
\* save_price_history INSERTs and commits on a connection of its own.
UpsertPriceHistory(t) ==
    /\ calls[t].pc = "selected"
    /\ calls[t].existing # <<>>
    /\ PriceChanged(calls[t].existing[1], calls[t].arg)
    /\ LET h == SavePriceHistoryOnFile(price_history, calls[t].existing[1].id,
                                       calls[t].arg.price, calls[t].arg.currency, now)
       IN /\ price_history' = h.ph
          /\ calls' = [calls EXCEPT ![t] =
                         IF h.status = "ok"
                         THEN [@ EXCEPT !.pc = "history_saved",
                                        !.committed = @ \cup {"price_history"}]
                         ELSE [@ EXCEPT !.pc = "raised", !.status = h.status]]
    /\ UNCHANGED <<accommodations, now, tz, ret, write_lock>>
    /\ UNCHANGED <<sched_vars, agent_vars, log_vars>>

\* Lines 134-142: UPDATE of the row, committed when the with-block ends.
UpsertUpdate(t) ==
    /\ AtUpdate(t)
    /\ LET id == calls[t].existing[1].id IN
       IF WriteStatus = "ok" /\ id \in DOMAIN accommodations
       THEN /\ accommodations' = [accommodations EXCEPT
                                     ![id] = UpdatedRow(accommodations[id], calls[t].arg, now)]
            /\ calls' = [calls EXCEPT ![t] =
                           [@ EXCEPT !.pc = "returned", !.status = "ok", !.value = id,
                                     !.committed = @ \cup {"accommodations"}]]
       ELSE IF WriteStatus = "ok"
       THEN \* the file was replaced and has no such row: the UPDATE changes nothing
            /\ calls' = [calls EXCEPT ![t] =
                           [@ EXCEPT !.pc = "returned", !.status = "ok", !.value = id]]
            /\ UNCHANGED accommodations
       ELSE /\ calls' = [calls EXCEPT ![t] =
                           [@ EXCEPT !.pc = "raised", !.status = WriteStatus]]
            /\ UNCHANGED accommodations
    /\ UNCHANGED <<price_history, now, tz, ret, write_lock>>
    /\ UNCHANGED <<sched_vars, agent_vars, log_vars>>

\* Lines 145-157: INSERT of the new row; the connection keeps the write lock
\* until it commits or rolls back. accommodation_hash is UNIQUE.
UpsertInsert(t) ==
    /\ calls[t].pc = "selected"
    /\ calls[t].existing = <<>>
    /\ IF WriteStatus # "ok"
       THEN /\ calls' = [calls EXCEPT ![t] =
                           [@ EXCEPT !.pc = "raised", !.status = WriteStatus]]
            /\ UNCHANGED write_lock
       ELSE IF ExistingIds(accommodations, calls[t].arg) # {}
       THEN /\ calls' = [calls EXCEPT ![t] =
                           [@ EXCEPT !.pc = "raised", !.status = "IntegrityError"]]
            /\ UNCHANGED write_lock
       ELSE /\ calls' = [calls EXCEPT ![t] = [@ EXCEPT !.pc = "inserted"]]
            /\ write_lock' = t
    /\ UNCHANGED <<accommodations, price_history, now, tz, ret>>
    /\ UNCHANGED <<sched_vars, agent_vars, log_vars>>

\* Lines 159-162: save_price_history for the first price, on a connection of
\* its own, while the calling connection still holds the write lock for the
\* uncommitted row; then the with-block commits, or rolls back on an error.
UpsertFirstPrice(t) ==
    /\ calls[t].pc = "inserted"
    /\ LET id  == NextId(accommodations)
           ins == [i \in DOMAIN accommodations \cup {id} |->
                     IF i = id THEN NewRow(calls[t].arg, now) ELSE accommodations[i]]
           h   == SavePriceHistoryOnFile(price_history, id,
                                         calls[t].arg.price, calls[t].arg.currency, now)
       IN IF h.status = "ok"
          THEN /\ accommodations' = ins
               /\ price_history' = h.ph
               /\ calls' = [calls EXCEPT ![t] =
                              [@ EXCEPT !.pc = "returned", !.status = "ok", !.value = id,
                                        !.committed = {"accommodations", "price_history"}]]
          ELSE /\ calls' = [calls EXCEPT ![t] =
                              [@ EXCEPT !.pc = "raised", !.status = h.status]]
               /\ UNCHANGED <<accommodations, price_history>>
    /\ write_lock' = 0
    /\ UNCHANGED <<now, tz, ret>>
    /\ UNCHANGED <<sched_vars, agent_vars, log_vars>>

\* The outcome of a one-step operation.
Outcome(op, status, arg, value) ==
    [n |-> ret.n + 1, op |-> op, status |-> status, arg |-> arg, value |-> value]

\* A one-step operation is called by a thread that is inside no call.
OneStep == OpsBegun < MaxOps /\ SomeCallerFree

\* save_price_history(id, price, currency) called on its own.
CallSavePriceHistory(id, offer) ==
    /\ OneStep
    /\ LET h == SavePriceHistoryOnFile(price_history, id, offer[1], offer[2], now)
       IN /\ price_history' = h.ph
          /\ ret' = Outcome("save_price_history", h.status, <<id, offer>>, 0)
    /\ UNCHANGED <<accommodations, now, tz>>
    /\ UNCHANGED <<sched_vars, agent_vars, log_vars, conn_vars>>

\* newSince(window): get_new_accommodations(hours_back), called when the
\* clock's fraction of a second is usec.
GetNewAccommodations(hours_back, usec) ==
    /\ OneStep
    /\ IF FileStatus # "ok"
       THEN ret' = Outcome("get_new_accommodations", FileStatus, hours_back, <<>>)
       ELSE \E order \in NewestFirst(accommodations,
                                     NewIds(accommodations, now, tz, usec, hours_back)) :
               ret' = Outcome("get_new_accommodations", "ok", hours_back,
                              [k \in 1..Len(order) |->
                                  RowToAccommodation(accommodations[order[k]])])
    /\ UNCHANGED <<accommodations, price_history, now, tz>>
    /\ UNCHANGED <<sched_vars, agent_vars, log_vars, conn_vars>>

\* markNotified(ids): mark_as_notified returns at once for an empty list.
MarkAsNotified(ids) ==
    /\ OneStep
    /\ IF ids = {} \/ WriteStatus # "ok"
       THEN UNCHANGED accommodations
       ELSE accommodations' = MarkAsNotifiedOn(accommodations, ids)
    /\ ret' = Outcome("mark_as_notified", IF ids = {} THEN "ok" ELSE WriteStatus, ids, 0)
    /\ UNCHANGED <<price_history, now, tz>>
    /\ UNCHANGED <<sched_vars, agent_vars, log_vars, conn_vars>>

\* priceDrops(threshold)
GetPriceDrops(threshold) ==
    /\ OneStep
    /\ IF FileStatus # "ok"
       THEN ret' = Outcome("get_price_drops", FileStatus, threshold, <<>>)
       ELSE \E rows \in GetPriceDropsOn(accommodations, price_history, now, threshold) :
               ret' = Outcome("get_price_drops", "ok", threshold, rows)
    /\ UNCHANGED <<accommodations, price_history, now, tz>>
    /\ UNCHANGED <<sched_vars, agent_vars, log_vars, conn_vars>>

\* recordSearch: save_search_record returns cursor.lastrowid, the id the
\* AUTOINCREMENT key gave the new row: one more than the largest id ever
\* given, whatever rows clean_old_data has deleted since.
SaveSearchRecord(results_count) ==
    /\ OneStep
    /\ IF WriteStatus # "ok"
       THEN UNCHANGED <<searches, sqlite_sequence>>
       ELSE /\ searches' = SaveSearchRecordOn(searches, DefaultCriteria, results_count, now)
            /\ sqlite_sequence' = sqlite_sequence + 1
    /\ ret' = Outcome("save_search_record", WriteStatus, results_count,
                      IF WriteStatus # "ok" THEN 0 ELSE sqlite_sequence')
    /\ UNCHANGED <<accommodations, price_history, now, tz, notifications, file_vars>>
    /\ UNCHANGED <<sched_vars, agent_vars, conn_vars>>

\* recordNotification
SaveNotificationRecord(ids, success) ==
    /\ OneStep
    /\ IF WriteStatus # "ok"
       THEN UNCHANGED notifications
       ELSE notifications' = SaveNotificationRecordOn(notifications, ids, "new_accommodations",
                                                      success, now)
    /\ ret' = Outcome("save_notification_record", WriteStatus, ids, 0)
    /\ UNCHANGED <<accommodations, price_history, now, tz, searches, sqlite_sequence, file_vars>>
    /\ UNCHANGED <<sched_vars, agent_vars, conn_vars>>

\* pruneOlderThan(retention): clean_old_data(days_to_keep), three DELETEs in
\* one transaction.
CleanOldData(days_to_keep, usec) ==
    /\ OneStep
    /\ LET cutoff == CleanCutoff(now, tz, usec, days_to_keep) IN
       IF WriteStatus # "ok"
       THEN UNCHANGED <<searches, price_history, notifications>>
       ELSE /\ searches' = KeptRows(searches, cutoff)
            /\ price_history' = KeptRows(price_history, cutoff)
            /\ notifications' = KeptRows(notifications, cutoff)
    /\ ret' = Outcome("clean_old_data", WriteStatus, days_to_keep, usec)
    /\ UNCHANGED <<accommodations, now, tz, sqlite_sequence, file_vars>>
    /\ UNCHANGED <<sched_vars, agent_vars, conn_vars>>

\* What a reader of the database file finds in it.
FileContents ==
    IF db_file.state = "ok"
    THEN Snapshot(accommodations, price_history, searches, sqlite_sequence, notifications)
    ELSE Unreadable

\* The database file has the contents c; a file SQLite cannot read has no
\* table.
FileBecomes(c) ==
    /\ accommodations' = IF Readable(c) THEN c.accommodations ELSE <<>>
    /\ price_history' = IF Readable(c) THEN c.price_history ELSE <<>>
    /\ searches' = IF Readable(c) THEN c.searches ELSE <<>>
    /\ sqlite_sequence' = IF Readable(c) THEN c.sqlite_sequence ELSE 0
    /\ notifications' = IF Readable(c) THEN c.notifications ELSE <<>>

\* shutil.copy2 reads and writes a file block after block, with no lock and
\* no transaction. One copy is in progress at a time, and the calls of
\* backup_database are more than a second apart, so that each backup has a
\* file name of its own.
\*
\* backup_database(db_path), called by a caller thread (by = "call") or by
\* the cleanup task (by = "cleanup"): the copy begins and reads its first
\* blocks.
BackupBegin(by) ==
    /\ db_file.copy = NoCopy
    /\ db_file' = [db_file EXCEPT !.copy = [op |-> "backup", by |-> by, seen |-> {FileContents}],
                                  !.n = @ + 1]
    /\ UNCHANGED <<backups, log_tables, store_vars>>

\* The copy reads further blocks, of the file as it is by now.
BackupRead ==
    /\ db_file.copy.op = "backup"
    /\ FileContents \notin db_file.copy.seen
    /\ db_file' = [db_file EXCEPT !.copy.seen = @ \cup {FileContents}]
    /\ UNCHANGED <<backups, log_tables, store_vars>>

\* The copies a backup_database can leave when it has read the versions
\* `seen` of the file: with one version that version; with several, blocks of
\* each, which give a file with each table as in one of the versions or a
\* file SQLite cannot read.
TornCopies(seen) ==
    IF Unreadable \in seen THEN {Unreadable}
    ELSE Mixes(seen) \cup (IF Cardinality(seen) > 1 THEN {Unreadable} ELSE {})

\* The copy reads its last blocks and backup_database returns.
BackupEnd ==
    /\ db_file.copy.op = "backup"
    /\ \E c \in TornCopies(db_file.copy.seen \cup {FileContents}) :
          backups' = backups \cup {c}
    /\ db_file' = [db_file EXCEPT !.copy = NoCopy]
    /\ UNCHANGED <<log_tables, store_vars>>

\* backup_database called by a caller thread.
CallBackupDatabase ==
    /\ OneStep
    /\ BackupBegin("call")
    /\ UNCHANGED <<sched_vars, agent_vars, conn_vars>>

CallBackupRead ==
    /\ db_file.copy.by = "call"
    /\ BackupRead
    /\ UNCHANGED <<sched_vars, agent_vars, conn_vars>>

CallBackupEnd ==
    /\ db_file.copy.by = "call"
    /\ BackupEnd
    /\ UNCHANGED <<sched_vars, agent_vars, conn_vars>>

\* restore_database(backup_path, db_path): shutil.copy2 opens the database
\* file for writing, which truncates it, whatever the connections are doing.
\* A statement on the empty file raises 'no such table'. From here on the
\* restore is the most recent operation on the tables; it is counted in
\* db_file.n.
Restoring == [n |-> ret.n, op |-> "restore_database", status |-> "ok"]
RestoreOpen(b) ==
    /\ OneStep
    /\ db_file.copy = NoCopy
    /\ b \in backups
    /\ db_file' = [state |-> "truncated",
                   copy |-> [op |-> "restore", by |-> "call", from |-> b, pre |-> FileContents],
                   n |-> db_file.n + 1]
    /\ FileBecomes(Unreadable)
    /\ ret' = Restoring
    /\ UNCHANGED <<now, tz, backups>>
    /\ UNCHANGED <<sched_vars, agent_vars, conn_vars>>

\* The copy has written the first blocks of the backup: the file is a part of
\* a database file, on which a statement raises 'database disk image is
\* malformed'.
RestoreWrite ==
    /\ db_file.copy.op = "restore"
    /\ db_file.state = "truncated"
    /\ db_file' = [db_file EXCEPT !.state = "malformed"]
    /\ UNCHANGED <<backups, log_tables, store_vars>>
    /\ UNCHANGED <<sched_vars, agent_vars, conn_vars>>

\* The files a restore_database of the backup b can leave: b; and, for a
\* statement of another thread that was committing when the file was
\* truncated and wrote its blocks into the file being copied, a file with
\* each table as in b or as the file had it (pre), or a file SQLite cannot
\* read.
RestoredFiles(b, pre) ==
    IF ~Readable(b) THEN {Unreadable}
    ELSE IF Readable(pre) /\ pre # b THEN Mixes({b, pre}) \cup {Unreadable}
    ELSE {b}

\* The copy has written its last block and restore_database returns.
RestoreClose ==
    /\ db_file.copy.op = "restore"
    /\ \E c \in RestoredFiles(db_file.copy.from, db_file.copy.pre) :
          /\ FileBecomes(c)
          /\ db_file' = [db_file EXCEPT !.state = IF Readable(c) THEN "ok" ELSE "malformed",
                                        !.copy = NoCopy]
    /\ UNCHANGED <<now, tz, ret, backups>>
    /\ UNCHANGED <<sched_vars, agent_vars, conn_vars>>

\* An hour passes.
AdvanceClock ==
    /\ now < MaxNow
    /\ now' = now + 1
    /\ UNCHANGED <<accommodations, price_history, tz, ret>>
    /\ UNCHANGED <<sched_vars, agent_vars, log_vars, conn_vars>>

\* save_accommodation runs statement by statement on thread 1 while the
\* one-step operations run on the other thread; two save_accommodation calls
\* at the same time are UpsertSpec's.
StoreNext ==
    \/ \E t \in {1}, c \in Candidates : UpsertSelect(t, c)
    \/ \E t \in {1} : UpsertPriceHistory(t)
    \/ \E t \in {1} : UpsertUpdate(t)
    \/ \E t \in {1} : UpsertInsert(t)
    \/ \E t \in {1} : UpsertFirstPrice(t)
    \/ \E o \in {RON(80)} : CallSavePriceHistory(1, o)
    \/ \E h \in HoursBack, usec \in Microseconds : GetNewAccommodations(h, usec)
    \/ \E ids \in IdLists : MarkAsNotified(ids)
    \/ \E th \in Thresholds : GetPriceDrops(th)
    \/ \E n \in {1} : SaveSearchRecord(n)
    \/ \E ok \in {FALSE} : SaveNotificationRecord(<<1>>, ok)
    \/ \E d \in DaysToKeep, usec \in Microseconds : CleanOldData(d, usec)
    \/ CallBackupDatabase
    \/ CallBackupRead
    \/ CallBackupEnd
    \/ \E b \in backups : RestoreOpen(b)
    \/ RestoreWrite
    \/ RestoreClose
    \/ AdvanceClock

StoreSpec == StoreInit /\ [][StoreNext]_vars

(***************************************************************************)
(* save_accommodation called from two threads at the same time (worker     *)
(* threads of the scheduler, the run-once command), and nothing else.      *)
(***************************************************************************)

UpsertCandidates ==
    { Candidate(<<"B">>, <<"c">>, <<"k">>, RON(100), Flt(8)),
      Candidate(<<"B">>, <<"c">>, <<"k">>, RON(80), Flt(8)),
      Candidate(<<"a">>, <<"c">>, <<"k">>, RON(100), Flt(8)) }

UpsertNext ==
    \/ \E t \in Callers, c \in UpsertCandidates : UpsertSelect(t, c)
    \/ \E t \in Callers : UpsertPriceHistory(t)
    \/ \E t \in Callers : UpsertUpdate(t)
    \/ \E t \in Callers : UpsertInsert(t)
    \/ \E t \in Callers : UpsertFirstPrice(t)
    \/ AdvanceClock

UpsertSpec == StoreInit /\ [][UpsertNext]_vars
(***************************************************************************)
(*        SEARCH-AND-PROCESS PASS (main.py, filter.py, email_notifier.py)  *)
(***************************************************************************)

\* Bound of the agent model.
MaxPasses == 2       \* search_and_process passes begun in one behaviour

\* PriceAlert(...) is built with currency "RON".
AlertCurrency    == "RON"
\* AccommodationAgent.__init__: PriceAlert(max_price * 0.8).
TargetPrice      == FMul(Flt(MaxPrice), FDiv(Flt(8), Flt(10)))
\* search_and_process line 83: get_new_accommodations(hours_back=24).
NewWindowHours   == 24

\* _convert_currency: the exchange_rates table, pairs <<pair of currencies,
\* rate>>; 4.98 is the float nearest to 498/100, and so on.
ExchangeRates ==
    { << <<"EUR", "RON">>, FDiv(Flt(498), Flt(100)) >>,
      << <<"USD", "RON">>, FDiv(Flt(452), Flt(100)) >>,
      << <<"RON", "EUR">>, FDiv(Flt(20), Flt(100)) >>,
      << <<"RON", "USD">>, FDiv(Flt(22), Flt(100)) >>,
      << <<"USD", "EUR">>, FDiv(Flt(92), Flt(100)) >>,
      << <<"EUR", "USD">>, FDiv(Flt(109), Flt(100)) >> }

\* _convert_currency on the table `rates`: amount * rate, a float product, for
\* a pair of the table; a pair that is not in the table and has 'RON' on
\* neither side goes through RON by two calls of the function itself.
RECURSIVE ConvertWith(_, _, _, _)
ConvertWith(rates, amount, from_currency, to_currency) ==
    IF from_currency = to_currency THEN amount
    ELSE IF \E e \in rates : e[1] = <<from_currency, to_currency>>
         THEN FMul(amount, (CHOOSE e \in rates : e[1] = <<from_currency, to_currency>>)[2])
    ELSE IF from_currency # "RON" /\ to_currency # "RON"
         THEN ConvertWith(rates, ConvertWith(rates, amount, from_currency, "RON"),
                          "RON", to_currency)
    ELSE amount

\* _convert_currency on self.exchange_rates.
ConvertCurrency(amount, from_currency, to_currency) ==
    ConvertWith(ExchangeRates, amount, from_currency, to_currency)

\* filter_by_price: keeps the candidates whose converted price is at most
\* max_price, and rewrites their price and currency to the converted ones.
FilterByPrice(accs) ==
    LET conv == [k \in 1..Len(accs) |->
                    [accs[k] EXCEPT !.price = ConvertCurrency(accs[k].price, accs[k].currency,
                                                              DefaultCriteria.currency),
                                    !.currency = DefaultCriteria.currency]]
    IN SelectSeq(conv, LAMBDA a : FLeq(a.price, DefaultCriteria.max_price))

\* filter_by_rating
FilterByRating(accs) == SelectSeq(accs, LAMBDA a : FLeq(DefaultCriteria.min_rating, a.rating))

\* filter_duplicates: the key is "<title>_<location>" after lower().strip();
\* the first candidate of every key is kept.
DuplicateKey(a) == LowerText(Strip(a.title)) \o <<"_">> \o LowerText(Strip(a.location))
RECURSIVE FilterDuplicates(_)
FilterDuplicates(accs) ==
    IF accs = <<>> THEN <<>>
    ELSE LET front == SubSeq(accs, 1, Len(accs) - 1)
             a     == accs[Len(accs)]
         IN IF \E k \in 1..Len(front) : DuplicateKey(front[k]) = DuplicateKey(a)
            THEN FilterDuplicates(front)
            ELSE Append(FilterDuplicates(front), a)

\* sort_accommodations(..., "price"): sorted() is stable.
RECURSIVE SortAccommodations(_)
SortAccommodations(accs) ==
    IF accs = <<>> THEN <<>>
    ELSE LET front == SortAccommodations(SubSeq(accs, 1, Len(accs) - 1))
             a     == accs[Len(accs)]
         IN SelectSeq(front, LAMBDA b : FLeq(b.price, a.price)) \o <<a>>
            \o SelectSeq(front, LAMBDA b : FLess(a.price, b.price))

\* apply_all_filters
ApplyAllFilters(accs) ==
    SortAccommodations(FilterDuplicates(FilterByRating(FilterByPrice(accs))))

\* PriceAlert.check_alerts
CheckAlerts(accs) ==
    SelectSeq(accs, LAMBDA a : a.currency = AlertCurrency /\ FLeq(a.price, TargetPrice))

\* should_send_notification line 269: acc_key = f"{title}_{location}_{price}".
\* The price is formatted by repr(), which gives different floats different
\* texts, so the float stands for its text.
AccKey(a) == a.title \o <<"_">> \o a.location \o <<"_">> \o <<a.price>>

\* What search_all_platforms can return.
Fetch3 ==
    << Candidate(<<"A", " ">>, <<"c">>, <<"k">>, RON(100), Flt(8)),
       Candidate(<<"a">>, <<"c">>, <<"k">>, RON(100), Flt(8)),
       Candidate(<<"B">>, <<"c">>, <<"k">>, RON(100), Flt(8)) >>
FetchConverted ==
    << Candidate(<<"a">>, <<"c">>, <<"k">>, EUR(20), Flt(8)),
       Candidate(<<"B">>, <<"c">>, <<"k">>, RON(99), Flt(8)) >>
FetchResults ==
    { <<>>,
      Fetch3,
      FetchConverted,
      << Candidate(<<"B">>, <<"c">>, <<"k">>, RON(100), Flt(8)) >>,
      << Candidate(<<"B">>, <<"c">>, <<"k">>, RON(95), Flt(8)),
         Candidate(<<"a">>, <<"c">>, <<"k">>, RON(80), Flt(8)),
         Candidate(<<"B">>, <<"c">>, <<"k">>, EUR(200), Flt(8)) >>,
      << Candidate(<<"a">>, <<"c">>, <<"k">>, RON(80), Flt(6)) >> }

\* apply_all_filters on each of them, worked out once.
FilteredPairs == {<<fetched, ApplyAllFilters(fetched)>> : fetched \in FetchResults}
Filtered(fetched) == (CHOOSE e \in FilteredPairs : e[1] = fetched)[2]

\* A pass that ends early only when the fetch returned nothing.
EndsWithNothingFetched(fetched, filtered) ==
    fetched = <<>>

\* Lines 60-62 and 69-71: the pass returns [] when the fetch returned nothing
\* or the filters left nothing.
EndsWithNothing(fetched, filtered) ==
    fetched = <<>> \/ filtered = <<>>

\* A loop that carries on with the next candidate after a save that raised.
CanSaveNextAfterFailure(call) == call.pc \in {"idle", "returned", "raised"}

\* The save loops of lines 74-77 and 93-96 have no handler of their own: the
\* next save_accommodation call is made only when the one before returned.
CanSaveNext(call) == call.pc \in {"idle", "returned"}

\* A pass that goes on to the search record only after a successful notify.
AfterNotifyOnlyIfSent(success) == IF success THEN "resave" ELSE "ended"

\* Lines 91-108: after send_if_needed the pass saves and marks the new items
\* if the result was True, and goes on to the price alerts and the search
\* record either way.
AfterNotify(success) == IF success THEN "resave" ELSE "record"

\* search_and_process runs in the worker threads the scheduler starts for the
\* search task and in the main thread ('search' command, --run-once), on one
\* agent: one database file and one NotificationManager.
PassesBegun == SumOver([t \in Callers |-> passes[t].n], Callers)
InPass(t) == passes[t].pc # "idle"

\* The task whose function is search_and_process.
SearchTask == "search"

\* Passes in progress that a worker thread of the search task is running, and
\* whether a thread outside the scheduler (the main thread) is running one.
ScheduledPasses == Cardinality({t \in Callers : InPass(t) /\ passes[t].by = "worker"})
ManualPass == \E t \in Callers : InPass(t) /\ passes[t].by = "caller"

\* search_and_process returns to its caller (it raises nothing: lines
\* 118-120). In a worker thread of the scheduler the caller is line 103 of
\* _run_task: the task is marked running until the worker has executed the
\* finally clause (WorkerFinally).
Returns(by) ==
    IF by = "worker"
    THEN /\ workers' = Move(workers, SearchTask, "fn", "done")
         /\ UNCHANGED <<sched_is_running, scheduler_thread, loops, tasks, tick_now, loop_vars,
                        call_vars>>
    ELSE UNCHANGED sched_vars

\* The pass of thread t ends: its log entry, and the thread idle again.
EndPass(t, outcome, marked, search_recorded) ==
    /\ pass_log' = [n |-> pass_log.n + 1, thread |-> t, outcome |-> outcome,
                    items_before |-> passes[t].items_before,
                    fetched |-> passes[t].fetched, filtered |-> passes[t].filtered,
                    new |-> passes[t].new_ids, notify_called |-> passes[t].notify_called,
                    success |-> passes[t].success, marked |-> marked,
                    alerts |-> Len(CheckAlerts(passes[t].filtered)),
                    search_recorded |-> search_recorded]
    /\ passes' = [passes EXCEPT ![t] = [pc |-> "idle", n |-> passes[t].n]]
    /\ Returns(passes[t].by)

\* Lines 55-71: search_all_platforms returns `fetched`, apply_all_filters
\* gives `filtered`; with nothing left the pass returns []. The caller is a
\* worker thread of the search task (by = "worker") or a thread outside the
\* scheduler (by = "caller").
PassBeginWith(t, by, fetched, filtered) ==
    /\ ~InPass(t)
    /\ ~InCall(t)
    /\ PassesBegun < MaxPasses
    /\ IF EndsWithNothing(fetched, filtered)
       THEN /\ pass_log' = [n |-> pass_log.n + 1, thread |-> t, outcome |-> "nothing",
                            items_before |-> Cardinality(DOMAIN accommodations),
                            fetched |-> fetched, filtered |-> filtered,
                            new |-> <<>>, notify_called |-> FALSE, success |-> FALSE,
                            marked |-> {}, alerts |-> 0, search_recorded |-> FALSE]
            /\ passes' = [passes EXCEPT ![t] = [pc |-> "idle", n |-> passes[t].n + 1]]
            /\ Returns(by)
       ELSE /\ passes' = [passes EXCEPT ![t] =
                            [pc |-> "save", n |-> passes[t].n + 1, by |-> by,
                             items_before |-> Cardinality(DOMAIN accommodations),
                             fetched |-> fetched, filtered |-> filtered,
                             k |-> 1, new |-> <<>>, new_ids |-> <<>>, any_new |-> FALSE,
                             notify_called |-> FALSE, success |-> FALSE, notified_ids |-> {}]]
            /\ UNCHANGED pass_log
            /\ UNCHANGED sched_vars
    /\ calls' = [calls EXCEPT ![t] = [pc |-> "idle", n |-> calls[t].n]]
    /\ UNCHANGED <<store_vars, log_vars, write_lock, sent_accommodations, delivered>>
    /\ UNCHANGED fn_vars

\* search_and_process called by a thread outside the scheduler.
PassBegin(t, fetched) == PassBeginWith(t, "caller", fetched, Filtered(fetched))

\* The 'search' command of the interactive loop (main.py lines 361-363): the
\* main thread calls search_and_process itself, one command at a time; no
\* task flag is read or written.
CommandSearch(t, fetched) ==
    /\ ~ManualPass
    /\ ~stopping
    /\ PassBegin(t, fetched)

\* _run_task line 103 for the search task: a worker thread that has entered
\* the function runs lines 55-71 of search_and_process.
WorkerPass(t, fetched) ==
    /\ workers[<<SearchTask, "fn">>] > ScheduledPasses
    /\ PassBeginWith(t, "worker", fetched, Filtered(fetched))

\* Lines 74-77: save_accommodation is called for the next filtered candidate.
PassSave(t) ==
    /\ passes[t].pc = "save"
    /\ CanSaveNext(calls[t])
    /\ passes[t].k <= Len(passes[t].filtered)
    /\ calls' = BeginCall(t, passes[t].filtered[passes[t].k])
    /\ passes' = [passes EXCEPT ![t].k = @ + 1]
    /\ UNCHANGED <<store_vars, log_vars, write_lock, sent_accommodations, delivered, pass_log>>
    /\ UNCHANGED <<sched_vars, fn_vars>>

\* Lines 118-120: an exception of a store call is caught by the handler of
\* the whole pass, which logs it and returns [].
PassError(t) ==
    /\ passes[t].pc \in {"save", "resave"}
    /\ calls[t].pc = "raised"
    /\ EndPass(t, "error", {}, FALSE)
    /\ UNCHANGED <<store_vars, log_vars, conn_vars, sent_accommodations, delivered>>
    /\ UNCHANGED fn_vars

\* Lines 80-85: check_alerts, then get_new_accommodations(24), called when
\* the clock's fraction of a second is usec; with no new item the pass goes
\* on to the price alerts and the search record.
PassGetNew(t, usec) ==
    /\ passes[t].pc = "save"
    /\ CanSaveNext(calls[t])
    /\ passes[t].k > Len(passes[t].filtered)
    /\ \E order \in NewestFirst(accommodations,
                                NewIds(accommodations, now, tz, usec, NewWindowHours)) :
          passes' = [passes EXCEPT ![t] =
                       [@ EXCEPT !.pc = IF order = <<>> THEN "record" ELSE "keys",
                                 !.k = 1,
                                 !.new_ids = order,
                                 !.new = [j \in 1..Len(order) |->
                                             RowToAccommodation(accommodations[order[j]])]]]
    /\ UNCHANGED <<store_vars, log_vars, conn_vars, sent_accommodations, delivered, pass_log>>
    /\ UNCHANGED <<sched_vars, fn_vars>>

\* should_send_notification lines 268-270 for the next new item: the test
\* `acc_key not in self.sent_accommodations`. The set belongs to the one
\* NotificationManager and is read and written without a lock.
PassKeyCheck(t) ==
    /\ passes[t].pc = "keys"
    /\ passes[t].k <= Len(passes[t].new)
    /\ passes' = [passes EXCEPT ![t] =
                    IF AccKey(passes[t].new[passes[t].k]) \in sent_accommodations
                    THEN [@ EXCEPT !.k = @ + 1]
                    ELSE [@ EXCEPT !.pc = "key_add"]]
    /\ UNCHANGED <<store_vars, log_vars, conn_vars, sent_accommodations, delivered, pass_log>>
    /\ UNCHANGED <<sched_vars, fn_vars>>

\* Lines 271-272: the item is counted as new and its key is added to the set.
PassKeyAdd(t) ==
    /\ passes[t].pc = "key_add"
    /\ sent_accommodations' = sent_accommodations \cup {AccKey(passes[t].new[passes[t].k])}
    /\ passes' = [passes EXCEPT ![t] = [@ EXCEPT !.pc = "keys", !.k = @ + 1, !.any_new = TRUE]]
    /\ UNCHANGED <<store_vars, log_vars, conn_vars, delivered, pass_log>>
    /\ UNCHANGED <<sched_vars, fn_vars>>

\* send_if_needed lines 279-281: with a new key send_accommodation_alert is
\* called with the whole list and its result returned (smtp_ok: did
\* _send_email succeed; every exception is caught and gives False); with no
\* new key nothing is sent and the result is True.
PassSend(t, smtp_ok) ==
    /\ passes[t].pc = "keys"
    /\ passes[t].k > Len(passes[t].new)
    /\ LET success == IF passes[t].any_new THEN smtp_ok ELSE TRUE IN
       /\ passes' = [passes EXCEPT ![t] =
                       [@ EXCEPT !.pc = AfterNotify(success), !.k = 1,
                                 !.notify_called = passes[t].any_new,
                                 !.success = success]]
       /\ delivered' = IF passes[t].any_new /\ smtp_ok
                       THEN delivered \cup Range(passes[t].new_ids)
                       ELSE delivered
    /\ UNCHANGED <<store_vars, log_vars, conn_vars, sent_accommodations, pass_log>>
    /\ UNCHANGED <<sched_vars, fn_vars>>

\* The ids the save_accommodation calls of lines 93-96 have returned so far.
NotifiedIds(t) ==
    IF passes[t].k > 1 /\ calls[t].pc = "returned"
    THEN passes[t].notified_ids \cup {calls[t].value}
    ELSE passes[t].notified_ids

\* Lines 93-96: save_accommodation is called for the next new item.
PassResave(t) ==
    /\ passes[t].pc = "resave"
    /\ CanSaveNext(calls[t])
    /\ passes[t].k <= Len(passes[t].new)
    /\ calls' = BeginCall(t, passes[t].new[passes[t].k])
    /\ passes' = [passes EXCEPT ![t] = [@ EXCEPT !.k = @ + 1, !.notified_ids = NotifiedIds(t)]]
    /\ UNCHANGED <<store_vars, log_vars, write_lock, sent_accommodations, delivered, pass_log>>
    /\ UNCHANGED <<sched_vars, fn_vars>>

\* Line 97: mark_as_notified(notified_ids); OperationalError while another
\* connection holds the write lock.
PassMark(t) ==
    /\ passes[t].pc = "resave"
    /\ CanSaveNext(calls[t])
    /\ passes[t].k > Len(passes[t].new)
    /\ IF WriteStatus # "ok"
       THEN /\ EndPass(t, "error", {}, FALSE)
            /\ UNCHANGED accommodations
       ELSE /\ accommodations' = MarkAsNotifiedOn(accommodations, NotifiedIds(t))
            /\ passes' = [passes EXCEPT ![t] =
                            [@ EXCEPT !.pc = "record", !.notified_ids = NotifiedIds(t)]]
            /\ UNCHANGED pass_log
            /\ UNCHANGED sched_vars
    /\ UNCHANGED <<price_history, now, tz, ret>>
    /\ UNCHANGED <<log_vars, conn_vars, sent_accommodations, delivered>>
    /\ UNCHANGED fn_vars

\* Lines 100-114: send_price_alert (its result is not used and no exception
\* leaves it), then save_search_record and return; OperationalError while
\* another connection holds the write lock.
PassRecord(t) ==
    /\ passes[t].pc = "record"
    /\ IF WriteStatus # "ok"
       THEN /\ EndPass(t, "error", passes[t].notified_ids, FALSE)
            /\ UNCHANGED <<searches, sqlite_sequence>>
       ELSE /\ EndPass(t, "done", passes[t].notified_ids, TRUE)
            /\ searches' = SaveSearchRecordOn(searches, DefaultCriteria,
                                              Len(passes[t].filtered), now)
            /\ sqlite_sequence' = sqlite_sequence + 1
    /\ UNCHANGED <<store_vars, notifications, file_vars, conn_vars>>
    /\ UNCHANGED <<sent_accommodations, delivered>>
    /\ UNCHANGED fn_vars

\* NotificationManager.clear_sent_history(), email_notifier.py lines 283-285:
\* sent_accommodations.clear(), called by any thread at any time, also
\* between the key test and the key insertion of a pass.
ClearSentHistory ==
    /\ sent_accommodations' = {}
    /\ UNCHANGED <<store_vars, log_vars, conn_vars, delivered, pass_log, passes>>
    /\ UNCHANGED <<sched_vars, fn_vars>>

\* The files the agent model starts on.
AgentTimelinesA == { <<>>, << Seen(RON(100), -240) >> }

AgentInit == StoreInitOn(AgentTimelinesA \X SeedTimelinesB)

AgentNext ==
    \/ \E t \in Callers, fetched \in FetchResults : PassBegin(t, fetched)
    \/ \E t \in Callers : PassSave(t)
    \/ \E t \in Callers : UpsertPriceHistory(t)
    \/ \E t \in Callers : UpsertUpdate(t)
    \/ \E t \in Callers : UpsertInsert(t)
    \/ \E t \in Callers : UpsertFirstPrice(t)
    \/ \E t \in Callers : PassError(t)
    \/ \E t \in Callers, usec \in Microseconds : PassGetNew(t, usec)
    \/ \E t \in Callers : PassKeyCheck(t)
    \/ \E t \in Callers : PassKeyAdd(t)
    \/ \E t \in Callers, smtp_ok \in BOOLEAN : PassSend(t, smtp_ok)
    \/ \E t \in Callers : PassResave(t)
    \/ \E t \in Callers : PassMark(t)
    \/ \E t \in Callers : PassRecord(t)
    \/ ClearSentHistory
    \/ AdvanceClock

AgentSpec == AgentInit /\ [][AgentNext]_vars

(***************************************************************************)
(* search_and_process pass after pass in one thread: the scheduler's search *)
(* task with no manual run beside it.                                       *)
(***************************************************************************)
PassNext ==
    \/ \E t \in {1}, fetched \in FetchResults : PassBegin(t, fetched)
    \/ \E t \in {1} : PassSave(t)
    \/ \E t \in {1} : UpsertPriceHistory(t)
    \/ \E t \in {1} : UpsertUpdate(t)
    \/ \E t \in {1} : UpsertInsert(t)
    \/ \E t \in {1} : UpsertFirstPrice(t)
    \/ \E t \in {1} : PassError(t)
    \/ \E t \in {1}, usec \in Microseconds : PassGetNew(t, usec)
    \/ \E t \in {1} : PassKeyCheck(t)
    \/ \E t \in {1} : PassKeyAdd(t)
    \/ \E t \in {1}, smtp_ok \in BOOLEAN : PassSend(t, smtp_ok)
    \/ \E t \in {1} : PassResave(t)
    \/ \E t \in {1} : PassMark(t)
    \/ \E t \in {1} : PassRecord(t)
    \/ ClearSentHistory
    \/ AdvanceClock

PassSpec == AgentInit /\ [][PassNext]_vars

(***************************************************************************)
(* The scheduler with the agent behind it: the function of the search task *)
(* is search_and_process, run by the task's worker threads.                *)
(***************************************************************************)

\* The search task alone on a file that holds "B", with passes that
\* run to their end.
JobFiles == {<<>>} \X (SeedTimelinesB \ {<<>>})
JobFetches ==
    { FetchConverted,
      << Candidate(<<"B">>, <<"c">>, <<"k">>, RON(100), Flt(8)) >> }

JobInit ==
    /\ SchedInitWith(<<TaskList[1]>>, TaskFields)
    /\ StoreStartsOn(JobFiles)
    /\ tz = 0

JobNext ==
    \/ Start
    \/ Stop
    \/ StopJoin
    \/ \E l \in BagToSet(loops) : LoopTest(l)
    \/ \E p \in BagToSet(in_pass) : LoopNow(p)
    \/ \E p \in BagToSet(in_pass) : LoopTask(p)
    \/ \E p \in BagToSet(in_pass) : LoopSleep(p)
    \/ WorkerCheck(SearchTask)
    \/ WorkerSet(SearchTask)
    \/ WorkerFinally(SearchTask)
    \/ WorkerNextRun(SearchTask, "returned")
    \/ \E t \in Callers, fetched \in JobFetches : WorkerPass(t, fetched)
    \/ \E t \in Callers : PassSave(t)
    \/ \E t \in Callers : UpsertPriceHistory(t)
    \/ \E t \in Callers : UpsertUpdate(t)
    \/ \E t \in Callers : UpsertInsert(t)
    \/ \E t \in Callers : UpsertFirstPrice(t)
    \/ \E t \in Callers : PassError(t)
    \/ \E t \in Callers, usec \in Microseconds : PassGetNew(t, usec)
    \/ \E t \in Callers : PassKeyCheck(t)
    \/ \E t \in Callers : PassKeyAdd(t)
    \/ \E t \in Callers, smtp_ok \in BOOLEAN : PassSend(t, smtp_ok)
    \/ \E t \in Callers : PassResave(t)
    \/ \E t \in Callers : PassMark(t)
    \/ \E t \in Callers : PassRecord(t)
    \/ Tock

(***************************************************************************)
(* The agent of the interactive mode (main.py): the commands 'start',      *)
(* 'stop' and 'search' of the main thread, one after the other, and the    *)
(* scheduler of create_default_scheduler with the agent's functions behind *)
(* its four tasks.                                                         *)
(***************************************************************************)

\* AccommodationAgent.scheduler is an object from start_scheduler until
\* stop_scheduler has returned from its stop(); is_running of that object is
\* True until stop() clears it.
HasScheduler == sched_is_running \/ stopping

\* The tasks of create_default_scheduler, made at the clock reading `at`.
CreateDefaultTasks(at) ==
    [t \in DefaultTaskNames |->
        LET e == CHOOSE x \in Range(DefaultTasks) : x.name = t
            new == NewTask(e.interval_type, e.interval_value, at)
        IN [f \in TaskFields |-> new[f]]]

\* The 'start' command, start_scheduler (main.py lines 164-178): nothing
\* while the agent has a scheduler; else create_default_scheduler makes a new
\* scheduler, whose four tasks are due at the time of the command, and
\* start() starts its loop thread. (The threads of a scheduler that was
\* stopped go on with the tasks of that scheduler; a new scheduler is made
\* when they have ended: a bound of the model, as MaxLoops is.)
CommandStart ==
    /\ ~stopping
    /\ ~ManualPass
    /\ IF HasScheduler
       THEN UNCHANGED <<sched_is_running, scheduler_thread, loops, tasks, registry>>
       ELSE /\ LiveThreads = 0
            /\ scheduler_thread < MaxLoops
            /\ tasks' = CreateDefaultTasks(tick_now)
            /\ registry' = NamesOf(DefaultTasks)
            /\ sched_is_running' = TRUE
            /\ scheduler_thread' = scheduler_thread + 1
            /\ loops' = loops (+) One([wake_at |-> tick_now])
    /\ UNCHANGED <<workers, tick_now, loop_vars>>
    /\ UNCHANGED <<store_vars, agent_vars, log_vars, conn_vars>>

\* The 'stop' command, stop_scheduler (main.py lines 180-185): nothing while
\* the agent has no scheduler; else stop() of the scheduler, and when stop()
\* has returned (StopJoin) the agent has no scheduler.
CommandStop ==
    /\ ~ManualPass
    /\ Stop

\* run_price_alerts and heartbeat, the functions of the price_alerts and the
\* system_heartbeat task: they read the store and log, write nothing, and
\* catch what is raised (main.py lines 122-145, scheduler.py lines 268-270).
ReadingTasks == {"alerts", "heartbeat"}

\* cleanup_database (main.py lines 147-162), the function of the
\* database_cleanup task, in a worker thread: backup_database begins to copy
\* the file.
CleanupTask == "cleanup"
CleanupBackup ==
    /\ workers[<<CleanupTask, "fn">>] > 0
    /\ BackupBegin("cleanup")
    /\ UNCHANGED <<sched_vars, agent_vars, conn_vars>>

\* backup_database returns.
CleanupCopied ==
    /\ db_file.copy.by = "cleanup"
    /\ BackupEnd
    /\ workers' = Move(workers, CleanupTask, "fn", "cleaning")
    /\ UNCHANGED <<sched_is_running, scheduler_thread, loops, tasks, tick_now, loop_vars,
                   call_vars>>
    /\ UNCHANGED <<agent_vars, conn_vars>>

\* main.py line 157: the retention of cleanup_database, in days.
KeepDays == 30

\* clean_old_data(days_to_keep=30), whose error is caught and logged; then
\* cleanup_database returns to line 103 of _run_task.
CleanupClean(usec) ==
    /\ workers[<<CleanupTask, "cleaning">>] > 0
    /\ LET cutoff == CleanCutoff(now, tz, usec, KeepDays) IN
       IF WriteStatus # "ok"
       THEN UNCHANGED <<searches, price_history, notifications>>
       ELSE /\ searches' = KeptRows(searches, cutoff)
            /\ price_history' = KeptRows(price_history, cutoff)
            /\ notifications' = KeptRows(notifications, cutoff)
    /\ workers' = Move(workers, CleanupTask, "cleaning", "done")
    /\ UNCHANGED <<sched_is_running, scheduler_thread, loops, tasks, tick_now, loop_vars,
                   call_vars>>
    /\ UNCHANGED <<accommodations, now, tz, ret, sqlite_sequence, file_vars>>
    /\ UNCHANGED <<agent_vars, conn_vars>>

\* What search_all_platforms returns in this specification.
CommandFetches == { << Candidate(<<"B">>, <<"c">>, <<"k">>, RON(100), Flt(8)) >> }

\* The agent on a new database file. Every candidate is a new row there, and
\* save_accommodation of a new row raises (UpsertFirstPrice), so that a pass
\* ends with its first save, no table changes and the copy of
\* backup_database meets one version of the file. Passes that go on are
\* JobSpec's.
CommandNext ==
    \/ CommandStart
    \/ CommandStop
    \/ StopJoin
    \/ \E t \in Callers, fetched \in CommandFetches : CommandSearch(t, fetched)
    \/ \E l \in BagToSet(loops) : LoopTest(l)
    \/ \E p \in BagToSet(in_pass) : LoopNow(p)
    \/ \E p \in BagToSet(in_pass) : LoopTask(p)
    \/ \E p \in BagToSet(in_pass) : LoopSleep(p)
    \/ \E t \in DefaultTaskNames : WorkerCheck(t)
    \/ \E t \in DefaultTaskNames : WorkerSet(t)
    \/ \E t \in {SearchTask, CleanupTask} : WorkerFinally(t)
    \/ \E t \in DefaultTaskNames : WorkerNextRun(t, "returned")
    \/ \E t \in ReadingTasks : WorkerFnEnd(t, FALSE)
    \/ CleanupBackup
    \/ CleanupCopied
    \/ \E usec \in Microseconds : CleanupClean(usec)
    \/ \E t \in Callers, fetched \in CommandFetches : WorkerPass(t, fetched)
    \/ \E t \in Callers : PassSave(t)
    \/ \E t \in Callers : UpsertInsert(t)
    \/ \E t \in Callers : UpsertFirstPrice(t)
    \/ \E t \in Callers : PassError(t)
    \/ Tock

(***************************************************************************)
(*      search_all_platforms and _create_accommodation_hash on their own   *)
(***************************************************************************)

\* Bound of the platform lists.
MaxSources == 3

\* Platform names a configuration can list.
Sources == {<<"k">>, <<"m">>, <<"n">>}

\* Lists of at most MaxSources different platforms.
RECURSIVE SourceLists(_)
SourceLists(n) ==
    IF n = 0 THEN {<<>>}
    ELSE LET shorter == SourceLists(n - 1) IN
         shorter \cup {Append(l, p) : l \in shorter, p \in Sources}
PlatformLists ==
    {l \in SourceLists(MaxSources) :
        l # <<>> /\ \A i \in 1..Len(l), j \in 1..Len(l) : i # j => l[i] # l[j]}

\* What one platform's fetch does: create_scraper or search_accommodations
\* raises, or search_accommodations returns a list (two candidates here, so
\* that their order shows).
FetchOf(p, kind) ==
    CASE kind = "raise" -> [ok |-> FALSE, items |-> <<>>]
      [] kind = "empty" -> [ok |-> TRUE, items |-> <<>>]
      [] OTHER -> [ok |-> TRUE,
                   items |-> << Candidate(<<"a">>, <<"c">>, p, RON(100), Flt(8)),
                                Candidate(<<"B">>, <<"c">>, p, RON(80), Flt(8)) >>]
FetchKinds == {"raise", "empty", "two"}

\* An iteration that gives up at the first platform that fails. The code goes
\* on to the next platform (FetchStep); ThmC28_FetchFailureIsLocal tells the two apart.
FetchStepUntilFailure(call, p, fetch) ==
    [call EXCEPT !.at = IF fetch.ok THEN @ + 1 ELSE MaxSources + 1,
                 !.all = IF fetch.ok THEN @ \o fetch.items ELSE @,
                 !.fetched = Append(@, [platform |-> p, ok |-> fetch.ok, items |-> fetch.items])]

\* One iteration of the for loop of search_all_platforms (lines 212-224) for
\* platform p, whose fetch does what `fetch` says: all_accommodations is
\* extended by what the platform returns (line 217); an exception is caught
\* inside the loop body (lines 223-224) and the loop goes on. `fetched` is what
\* the function prints about each platform (lines 214, 218 and 224).
FetchStep(call, p, fetch) ==
    [call EXCEPT !.at = @ + 1,
                 !.all = IF fetch.ok THEN @ \o fetch.items ELSE @,
                 !.fetched = Append(@, [platform |-> p, ok |-> fetch.ok, items |-> fetch.items])]

\* Candidates for the identity hash: titles and locations that differ by case
\* and blanks, and ones that hold the "_" the hashed string is joined with.
HashTitles    == {<<"A", " ">>, <<"a">>, <<"a", "_", "b">>, <<"B">>}
HashLocations == {<<"c">>, <<" ", "C">>, <<"b", "_", "c">>}
HashPlatforms == {<<"k">>, <<"m">>}
HashOffers    == {RON(100), RON(80)}
HashRatings   == {Flt(8), Flt(6)}
HashCandidates ==
    {Candidate(t, l, p, o, r) : t \in HashTitles, l \in HashLocations,
                                p \in HashPlatforms, o \in HashOffers, r \in HashRatings}

\* Criteria sets a search is recorded for: a recurring search moves its dates.
CriteriaInputs ==
    {SearchCriteria(d, ci, co, g, Flt(MaxPrice), CriteriaCurrency, <<"hotel", "apartment">>,
                    Flt(MinRating)) :
        d \in {"Bucuresti", "Cluj"}, ci \in {30, 31}, co \in {32, 33}, g \in {2, 3}}

FunctionInputs ==
    {[fn |-> "search_all_platforms", platforms |-> l] : l \in PlatformLists}
    \cup {[fn |-> "_create_accommodation_hash", first |-> c, second |-> d] :
        c \in HashCandidates, d \in HashCandidates}
    \cup {[fn |-> "save_search_record", criteria |-> <<c, d>>] :
        c \in CriteriaInputs, d \in CriteriaInputs}

FunctionInit ==
    /\ SchedInit
    /\ accommodations = <<>>
    /\ price_history = <<>>
    /\ searches = <<>>
    /\ sqlite_sequence = 0
    /\ notifications = <<>>
    /\ backups = {}
    /\ db_file = SoundFile
    /\ calls = NoCalls
    /\ write_lock = 0
    /\ now = 0
    /\ tz = 0
    /\ ret = NoRet
    /\ sent_accommodations = {}
    /\ delivered = {}
    /\ pass_log = NoLog
    /\ passes = NoPasses
    /\ fn_arg \in FunctionInputs
    /\ fn_ret = NoResult

not_fn == <<sched_vars, store_vars, log_vars, conn_vars, sent_accommodations, delivered, pass_log, passes>>

\* search_all_platforms is called (lines 207-210): all_accommodations is
\* empty and the loop is before the first element of the list.
SearchCall ==
    /\ fn_arg.fn = "search_all_platforms"
    /\ fn_ret = NoResult
    /\ fn_ret' = [done |-> FALSE, at |-> 1, all |-> <<>>, fetched |-> <<>>]
    /\ UNCHANGED fn_arg
    /\ UNCHANGED not_fn

\* The call is inside its loop, or waiting at line 221 after a platform.
Searching == fn_arg.fn = "search_all_platforms" /\ ~fn_ret.done /\ fn_ret # NoResult

\* The loop takes the next element of the list as it is now and fetches it
\* (lines 212-224); what the fetch does is settled when it is made. The call
\* then waits at line 221, unless the fetch raised.
SearchFetch(kind) ==
    /\ Searching
    /\ fn_ret.at <= Len(fn_arg.platforms)
    /\ LET platform == fn_arg.platforms[fn_ret.at] IN
           fn_ret' = FetchStep(fn_ret, platform, FetchOf(platform, kind))
    /\ UNCHANGED fn_arg
    /\ UNCHANGED not_fn

\* The loop finds no further element in the list and the function returns
\* all_accommodations (lines 212 and 226).
SearchReturn ==
    /\ Searching
    /\ fn_ret.at > Len(fn_arg.platforms)
    /\ fn_ret' = [done |-> TRUE, value |-> fn_ret.all, fetched |-> fn_ret.fetched]
    /\ UNCHANGED fn_arg
    /\ UNCHANGED not_fn

\* The list is the caller's object (main.py lines 55-58 pass
\* config.platforms itself): another thread appends a platform to it while
\* the call is in progress, and the loop reads the list again at its next
\* iteration.
PlatformsAppend(p) ==
    /\ Searching
    /\ Len(fn_arg.platforms) < MaxSources
    /\ \A i \in 1..Len(fn_arg.platforms) : fn_arg.platforms[i] # p
    /\ fn_arg' = [fn_arg EXCEPT !.platforms = Append(@, p)]
    /\ UNCHANGED fn_ret
    /\ UNCHANGED not_fn

\* _create_accommodation_hash is called for two candidates.
CallCreateAccommodationHash ==
    /\ fn_arg.fn = "_create_accommodation_hash"
    /\ ~fn_ret.done
    /\ fn_ret' = [done |-> TRUE, value |-> << CreateAccommodationHash(fn_arg.first),
                                             CreateAccommodationHash(fn_arg.second) >>]
    /\ UNCHANGED fn_arg
    /\ UNCHANGED not_fn

\* save_search_record is called for the next criteria set of the input; it
\* returns the new row's id.
CallSaveSearchRecord ==
    /\ fn_arg.fn = "save_search_record"
    /\ Len(searches) < Len(fn_arg.criteria)
    /\ searches' = SaveSearchRecordOn(searches, fn_arg.criteria[Len(searches) + 1], 1, now)
    /\ sqlite_sequence' = sqlite_sequence + 1
    /\ fn_ret' = [done |-> Len(searches') = Len(fn_arg.criteria), value |-> sqlite_sequence']
    /\ UNCHANGED <<fn_arg, notifications, file_vars>>
    /\ UNCHANGED <<sched_vars, store_vars, conn_vars, sent_accommodations, delivered, pass_log, passes>>

FunctionNext ==
    \/ SearchCall
    \/ \E kind \in FetchKinds : SearchFetch(kind)
    \/ SearchReturn
    \/ \E p \in Sources : PlatformsAppend(p)
    \/ CallCreateAccommodationHash
    \/ CallSaveSearchRecord

FunctionSpec == FunctionInit /\ [][FunctionNext]_vars
(***************************************************************************)
(*                         Scheduler specification                         *)
(***************************************************************************)
\* A new database file (init_database): the tables exist and are empty.
NewFile ==
    /\ accommodations = <<>>
    /\ price_history = <<>>
    /\ searches = <<>>
    /\ sqlite_sequence = 0
    /\ notifications = <<>>
    /\ backups = {}
    /\ db_file = SoundFile
    /\ calls = NoCalls
    /\ write_lock = 0
    /\ now = 0
    /\ tz = 0
    /\ ret = NoRet
    /\ sent_accommodations = {}
    /\ delivered = {}
    /\ pass_log = NoLog
    /\ passes = NoPasses
    /\ fn_arg = NoArg
    /\ fn_ret = NoResult

SchedSpecInit == SchedInit /\ NewFile
WiringInit == SchedInitWith(DefaultTasks, TaskFields \cup {"last_run"}) /\ NewFile

\* AccommodationAgent() on a new database file: the agent has no scheduler,
\* and no task exists.
NoTasks == [t \in {} |-> 0]
CommandInit ==
    /\ sched_is_running = FALSE
    /\ scheduler_thread = 0
    /\ loops = EmptyBag
    /\ tasks = NoTasks
    /\ workers = NoWorkers(DefaultTaskNames)
    /\ tick_now = 0
    /\ in_pass = EmptyBag
    /\ lifecycle = <<>>
    /\ stopping = FALSE
    /\ registry = <<>>
    /\ NewFile

SchedSpec == SchedSpecInit /\ [][SchedNext]_vars
WiringSpec == WiringInit /\ [][WiringNext]_vars
TaskSpec == SchedSpecInit /\ [][TaskNext]_vars
LifecycleSpec == SchedSpecInit /\ [][LifecycleNext]_vars
RegistrySpec == SchedSpecInit /\ [][RegistryNext]_vars
JobSpec == JobInit /\ [][JobNext]_vars
CommandSpec == CommandInit /\ [][CommandNext]_vars

(***************************************************************************)
(*                          Scheduler properties                           *)
(***************************************************************************)

\* Executions of t's function in progress.
Executing(t) == workers[<<t, "fn">>]

\* C1: for every task and every interleaving of ticks and worker threads, the
\* task's function never has two executions in progress at the same time.
CexC1_NoConcurrentExecutions == \A t \in TaskNames : Executing(t) <= 1

\* The step in which the pass p of a loop thread takes task u of self.tasks
\* (lines 119-131 for that task).
Takes(p, u) ==
    /\ p.next \in 1..Len(registry)
    /\ registry[p.next] = u
    /\ in_pass' = (in_pass (-) One(p)) (+) One([p EXCEPT !.next = @ + 1])

\* A step in which the loop starts a worker thread for t.
Spawns(t) == workers'[<<t, "spawned">>] > workers[<<t, "spawned">>]

\* C2: an error raised by a task's function is caught at the launch boundary.
\* In the step in which an execution of t ends, by return or by raise, the
\* task is left idle (is_running = FALSE), the worker goes on to recompute
\* next_run, the loop threads and the scheduler flag are untouched and no other
\* task's state or workers change; the worker's last step sets next_run to the
\* current time plus the cadence; and every pass of the loop starts a worker
\* for each enabled, idle task it finds due, whatever has failed before.
C2_FnEnd(t) ==
    Executing(t)' < Executing(t) =>
        /\ ~tasks'[t].is_running
        /\ workers'[<<t, "returned">>] + workers'[<<t, "caught">>]
             = workers[<<t, "returned">>] + workers[<<t, "caught">>] + 1
        /\ UNCHANGED <<loops, sched_is_running, scheduler_thread>>
        /\ \A u \in TaskNames \ {t} :
              /\ tasks'[u] = tasks[u]
              /\ \A pc \in WorkerPcs : workers'[<<u, pc>>] = workers[<<u, pc>>]
C2_Caught(t) ==
    workers'[<<t, "caught">>] < workers[<<t, "caught">>] =>
        /\ tasks'[t].next_run = CalculateNextRun(t, tick_now)
        /\ UNCHANGED <<loops, sched_is_running, scheduler_thread>>
C2_Tick ==
    \A u \in TaskNames : \A p \in BagToSet(in_pass) :
        (Takes(p, u) /\ tasks[u].enabled /\ ~tasks[u].is_running /\ p.now >= tasks[u].next_run)
            => workers'[<<u, "spawned">>] = workers[<<u, "spawned">>] + 1
ThmC2_FailureIsolation ==
    [][\A t \in TaskNames : C2_FnEnd(t) /\ C2_Caught(t) /\ C2_Tick]_vars

\* A task's function has raised and was caught (the task is idle again), a
\* loop thread is alive, and a worker of another task has been started.
WitC2_FailureIsolation ==
    \E t \in TaskNames, u \in TaskNames :
        /\ t # u
        /\ workers[<<t, "caught">>] > 0
        /\ ~tasks[t].is_running
        /\ LoopThreads > 0
        /\ sched_is_running
        /\ tasks[u].next_run > 0
        /\ workers[<<u, "spawned">>] > 0

\* C3: after any sequence of start() and stop() calls at most one loop thread
\* is alive and dispatching tasks.
CexC3_SingleLoop == sched_is_running => LoopThreads <= 1

(***************************************************************************)
(*                            Store properties                             *)
(***************************************************************************)

\* The step is a call of the one-step store operation op.
Called(op) == ret'.n = ret.n + 1 /\ ret'.op = op

\* The step in which the save_accommodation call of thread t ends, by return
\* or by raise.
Ends(t) == InCall(t) /\ calls'[t].pc \in {"returned", "raised"}

\* The observations of item id, in insertion order.
ObservationsOf(ph, id) == SelectSeq(ph, LAMBDA r : r.accommodation_id = id)

\* C4: calling upsert twice with an identical candidate returns the same item
\* id both times, adds exactly 1 to times_seen on each call and leaves one
\* observation for the item: the second call appends none. Stated for the
\* step in which a thread's call ends whose call before had the same candidate.
CexC4_UpsertTwice ==
    [][\A t \in Callers :
          (Ends(t) /\ calls[t].prev.status # "none" /\ calls[t].prev.arg = calls[t].arg) =>
              /\ calls[t].prev.status = "ok"
              /\ calls'[t].status = "ok"
              /\ calls'[t].value = calls[t].prev.value
              /\ "price_history" \notin calls'[t].committed]_vars

\* C5: an upsert of a candidate whose identity already exists appends an
\* observation only if the candidate's price or currency differs from the
\* item's stored value at that moment; and no two consecutive observations of
\* one item have the same price and currency.
C5_Step ==
    \A t \in Callers :
        (calls[t].pc = "selected" /\ calls'[t].pc = "history_saved") =>
            /\ calls[t].existing[1].id \in DOMAIN accommodations
            /\ PriceChanged(accommodations[calls[t].existing[1].id], calls[t].arg)
C5_NoRepeat ==
    \A id \in DOMAIN accommodations :
        LET obs == ObservationsOf(price_history, id) IN
        \A k \in 1..(Len(obs) - 1) :
            obs[k].price # obs[k + 1].price \/ obs[k].currency # obs[k + 1].currency
CexC5_ObservationIffChanged == [][C5_Step]_vars /\ []C5_NoRepeat

\* C6: newSince(window) returns exactly the tracked items first seen within
\* the last `window` hours that are not notified, each of them once; and a
\* candidate whose identity the store did not hold is among them when
\* newSince follows its upsert.
C6_Exact ==
    Called("get_new_accommodations") =>
        /\ {CreateAccommodationHash(ret'.value[k]) : k \in 1..Len(ret'.value)}
             = {accommodations[i].accommodation_hash :
                  i \in {j \in DOMAIN accommodations :
                           /\ accommodations[j].first_seen >= now - ret'.arg
                           /\ ~accommodations[j].is_notified}}
        /\ \A k, m \in 1..Len(ret'.value) :
              k # m => CreateAccommodationHash(ret'.value[k]) # CreateAccommodationHash(ret'.value[m])
C6_JustUpserted ==
    \A t \in Callers :
        (/\ Called("get_new_accommodations")
         /\ OpsBegun = 1
         /\ calls[t].pc \in {"returned", "raised"}
         /\ calls[t].existing = <<>>)
            => \E k \in 1..Len(ret'.value) :
                  CreateAccommodationHash(ret'.value[k]) = CreateAccommodationHash(calls[t].arg)
CexC6_NewSince == [][C6_Exact /\ C6_JustUpserted]_vars

\* C9: priceDrops compares, for each item, only its most recent observation
\* with the observation just before it, so each item appears at most once in
\* the result.
CexC9_LatestPairOnly ==
    [][Called("get_price_drops") =>
          \A k \in 1..Len(ret'.value) :
              LET r == ret'.value[k]
                  own == {j \in DOMAIN price_history : price_history[j].accommodation_id = r.id}
              IN /\ \A j \in own : j <= r.ph1
                 /\ \A j \in own : j < r.ph1 => j <= r.ph2
                 /\ \A m \in 1..Len(ret'.value) : m # k => ret'.value[m].id # r.id]_vars

\* The drop of a compared pair in whole units: (old - new) * 100 against
\* threshold * old, for prices and thresholds that are whole numbers.
C10_Drop(r, threshold) ==
    /\ FNat(r.previous_price) > 0
    /\ FLeq(r.current_price, r.previous_price)
    /\ (FNat(r.previous_price) - FNat(r.current_price)) * 100
          >= FNat(threshold) * FNat(r.previous_price)
C10_Larger(r1, r2) ==
    (FNat(r1.previous_price) - FNat(r1.current_price)) * FNat(r2.previous_price)
        >= (FNat(r2.previous_price) - FNat(r2.current_price)) * FNat(r1.previous_price)
\* C10: of the pairs of observations that priceDrops compares, the result
\* holds exactly those whose drop (old - new) / old * 100 is at least the
\* threshold, listed by drop percentage, largest first.
C10_Step ==
    Called("get_price_drops") =>
        /\ {ret'.value[k] : k \in 1..Len(ret'.value)}
             = {r \in PriceChanges(accommodations, price_history, now) : C10_Drop(r, ret'.arg)}
        /\ \A k, m \in 1..Len(ret'.value) :
              k < m => /\ ret'.value[k] # ret'.value[m]
                       /\ C10_Larger(ret'.value[k], ret'.value[m])
CexC10_ThresholdAndOrder == [][C10_Step]_vars

(***************************************************************************)
(*                             Pass properties                             *)
(***************************************************************************)

\* The step in which a search_and_process pass ends.
Passed == pass_log'.n = pass_log.n + 1

\* C7: an item is marked notified only after an external notify call that
\* included it returned success; an item whose notification was never
\* delivered is never marked notified, across any sequence of passes.
CexC7_NotifiedOnlyAfterDelivery ==
    \A i \in DOMAIN accommodations : accommodations[i].is_notified => i \in delivered

\* The pass that ends in this step is the only one begun so far.
C8_OnlyPass == Passed /\ PassesBegun = 1
\* The pass that ends in this step is the second pass of the thread that made
\* the first, and no other thread has begun one.
C8_NextPass ==
    /\ Passed
    /\ pass_log.n = 1
    /\ pass_log'.thread = pass_log.thread
    /\ \A t \in Callers \ {pass_log.thread} : passes[t].n = 0
\* C8: on an empty store, a pass whose fetch returns 3 candidates, two of them
\* with one identity, and whose notify succeeds leaves 2 tracked items, both
\* returned by newSince and both marked notified; after a second identical
\* pass newSince returns nothing and times_seen of both items is 2.
C8_FirstPass ==
    (C8_OnlyPass /\ pass_log'.items_before = 0 /\ pass_log'.fetched = Fetch3
        /\ (pass_log'.notify_called => pass_log'.success)) =>
        /\ Cardinality(DOMAIN accommodations') = 2
        /\ Range(pass_log'.new) = DOMAIN accommodations'
        /\ pass_log'.marked = DOMAIN accommodations'
        /\ \A i \in DOMAIN accommodations' : accommodations'[i].is_notified
C8_SecondPass ==
    (C8_NextPass /\ pass_log.items_before = 0
        /\ pass_log.fetched = Fetch3 /\ (pass_log.notify_called => pass_log.success)
        /\ pass_log'.fetched = Fetch3 /\ (pass_log'.notify_called => pass_log'.success)) =>
        /\ Cardinality(DOMAIN accommodations') = 2
        /\ pass_log'.new = <<>>
        /\ \A i \in DOMAIN accommodations' : accommodations'[i].times_seen = 2
CexC8_EndToEnd == [][C8_FirstPass /\ C8_SecondPass]_vars

(***************************************************************************)
(*                     Store properties, continued                         *)
(***************************************************************************)

\* The observations of item id that lie inside the lookback window at time
\* `at` (the comparison side, the wider of the two windows of priceDrops).
InLookback(ph, id, at) ==
    {j \in DOMAIN ph : ph[j].accommodation_id = id /\ ph[j].timestamp >= at - ComparisonWindow}

\* C11: an item with fewer than two price observations inside the lookback
\* window never appears in the result of priceDrops, for any threshold.
ThmC11_NeedsTwoObservations ==
    [][Called("get_price_drops") =>
          \A k \in 1..Len(ret'.value) :
              Cardinality(InLookback(price_history, ret'.value[k].id, now)) >= 2]_vars

\* priceDrops has returned nothing for a store in which an item has one
\* observation inside the lookback window and an older one, 20 percent
\* higher, outside it.
WitC11_NeedsTwoObservations ==
    /\ ret.op = "get_price_drops"
    /\ ret.value = <<>>
    /\ \E i \in DOMAIN accommodations :
          /\ Cardinality(InLookback(price_history, i, now)) = 1
          /\ \E j, k \in DOMAIN price_history :
                /\ price_history[j].accommodation_id = i
                /\ price_history[k].accommodation_id = i
                /\ price_history[j].timestamp >= now - RecentWindow
                /\ price_history[k].timestamp < now - ComparisonWindow
                /\ price_history[k].price = Flt(100) /\ price_history[j].price = Flt(80)

\* C12: every upsert call is all-or-nothing. A call that has ended has
\* written a price observation only together with the item, a call that
\* raised has written nothing, and a call that wrote the item for a new
\* identity or a changed price has written the observation too.
C12_Done(t) ==
    calls[t].pc \in {"returned", "raised"} =>
        /\ "price_history" \in calls[t].committed => "accommodations" \in calls[t].committed
        /\ calls[t].pc = "raised" => calls[t].committed = {}
        /\ ("accommodations" \in calls[t].committed
              /\ (calls[t].existing = <<>> \/ PriceChanged(calls[t].existing[1], calls[t].arg)))
           => "price_history" \in calls[t].committed
CexC12_AllOrNothing == \A t \in Callers : C12_Done(t)

\* C13: when two executions call upsert concurrently for one identity, no
\* update is lost: the identity has exactly one item, every call that
\* returns has added 1 to the item's times_seen, and the same change of price
\* or currency is not recorded twice (no two consecutive observations of the
\* item are equal).
C13_OneItem ==
    \A i, j \in DOMAIN accommodations :
        accommodations[i].accommodation_hash = accommodations[j].accommodation_hash => i = j
C13_Counted ==
    \A t \in Callers :
        (calls[t].pc # "returned" /\ calls'[t].pc = "returned") =>
            /\ calls'[t].value \in DOMAIN accommodations
            /\ accommodations'[calls'[t].value].times_seen
                 = accommodations[calls'[t].value].times_seen + 1
C13_RecordedOnce ==
    \A id \in DOMAIN accommodations :
        \A j, k \in DOMAIN price_history :
            (/\ j < k
             /\ price_history[j].accommodation_id = id
             /\ price_history[k].accommodation_id = id
             /\ \A m \in (j + 1)..(k - 1) : price_history[m].accommodation_id # id)
                => <<price_history[j].price, price_history[j].currency>>
                     # <<price_history[k].price, price_history[k].currency>>
CexC13_NoLostUpdate == []C13_OneItem /\ [][C13_Counted]_vars /\ []C13_RecordedOnce

\* C14: after any sequence of store operations every tracked item has an
\* identity key of its own, times_seen >= 1 and last_seen >= first_seen.
ThmC14_ItemInvariant ==
    /\ \A i, j \in DOMAIN accommodations :
          accommodations[i].accommodation_hash = accommodations[j].accommodation_hash => i = j
    /\ \A i \in DOMAIN accommodations :
          /\ accommodations[i].accommodation_hash = CreateAccommodationHash(accommodations[i])
          /\ accommodations[i].times_seen >= 1
          /\ accommodations[i].last_seen >= accommodations[i].first_seen

\* Two store operations have been made on a store with two items, one of them
\* an upsert that found its identity, counted it and stamped last_seen.
WitC14_ItemInvariant ==
    /\ OpsBegun = 2
    /\ Cardinality(DOMAIN accommodations) = 2
    /\ \E t \in Callers :
          /\ calls[t].pc = "returned"
          /\ accommodations[calls[t].value].times_seen >= 2
          /\ accommodations[calls[t].value].last_seen = now
          /\ accommodations[calls[t].value].last_seen > accommodations[calls[t].value].first_seen

\* C15: for every tracked item the timestamps of its price observations are
\* strictly increasing in insertion order.
CexC15_StrictlyIncreasing ==
    \A id \in DOMAIN accommodations :
        LET obs == ObservationsOf(price_history, id) IN
        \A k \in 1..(Len(obs) - 1) : obs[k].timestamp < obs[k + 1].timestamp

\* C16: markNotified(ids) sets notified for exactly the given ids and changes
\* nothing else in the store; with an empty list it changes nothing; applied
\* a second time with the same ids it leaves the state as the first left it;
\* and a call that raises changes nothing.
C16_Step ==
    Called("mark_as_notified") =>
        /\ DOMAIN accommodations' = DOMAIN accommodations
        /\ \A i \in DOMAIN accommodations :
              /\ (ret'.status = "ok" /\ i \in ret'.arg) => accommodations'[i].is_notified
              /\ i \notin ret'.arg => accommodations'[i] = accommodations[i]
              /\ [accommodations'[i] EXCEPT !.is_notified = FALSE]
                   = [accommodations[i] EXCEPT !.is_notified = FALSE]
        /\ UNCHANGED <<price_history, searches, notifications>>
        /\ ret'.arg = {} => UNCHANGED accommodations
        /\ ret'.status # "ok" => UNCHANGED accommodations
        /\ (ret.op = "mark_as_notified" /\ ret.status = "ok" /\ ret.arg = ret'.arg)
              => UNCHANGED accommodations
ThmC16_MarkNotified == [][C16_Step]_vars

\* markNotified([1]) has been applied as the second operation to a store
\* with two items, neither of them upserted: item 1 is notified, item 2 is not.
WitC16_MarkNotified ==
    /\ ret.n = 2
    /\ ret.op = "mark_as_notified"
    /\ ret.status = "ok"
    /\ ret.arg = {1}
    /\ DOMAIN accommodations = {1, 2}
    /\ accommodations[1].is_notified
    /\ ~accommodations[2].is_notified
    /\ accommodations[1].last_seen < 0

\* C17: an upsert of a candidate whose identity is absent creates exactly one
\* item with times_seen = 1, first_seen = last_seen, notified = false and
\* exactly one price observation, and returns the new item's id; a later
\* upsert of the same identity returns that same id.
C17_Insert ==
    \A t \in Callers :
        (Ends(t) /\ calls[t].existing = <<>>) =>
            /\ calls'[t].status = "ok"
            /\ calls'[t].value \notin DOMAIN accommodations
            /\ DOMAIN accommodations' = DOMAIN accommodations \cup {calls'[t].value}
            /\ \A i \in DOMAIN accommodations : accommodations'[i] = accommodations[i]
            /\ accommodations'[calls'[t].value].accommodation_hash
                 = CreateAccommodationHash(calls[t].arg)
            /\ accommodations'[calls'[t].value].times_seen = 1
            /\ accommodations'[calls'[t].value].first_seen
                 = accommodations'[calls'[t].value].last_seen
            /\ ~accommodations'[calls'[t].value].is_notified
            /\ Len(price_history') = Len(price_history) + 1
            /\ Len(ObservationsOf(price_history', calls'[t].value)) = 1
C17_SameId ==
    \A t \in Callers :
        (/\ Ends(t)
         /\ calls[t].prev.status = "ok"
         /\ CreateAccommodationHash(calls[t].prev.arg) = CreateAccommodationHash(calls[t].arg))
            => calls'[t].status = "ok" /\ calls'[t].value = calls[t].prev.value
CexC17_InsertNew == [][C17_Insert /\ C17_SameId]_vars

\* C18: pruneOlderThan(retention) deletes exactly the search, price
\* observation and notification rows older than the cutoff (the current time
\* minus the retention), keeps every row at or after it, and leaves the
\* tracked items and all their fields unchanged.
C18_Kept(rows, cutoff) == SelectSeq(rows, LAMBDA r : ~(r.timestamp < cutoff))
C18_Step ==
    (Called("clean_old_data") /\ ret'.status = "ok") =>
        LET cutoff == now - ret'.arg * 24 IN
        /\ searches' = C18_Kept(searches, cutoff)
        /\ price_history' = C18_Kept(price_history, cutoff)
        /\ notifications' = C18_Kept(notifications, cutoff)
        /\ UNCHANGED accommodations
CexC18_PruneExactly == [][C18_Step]_vars

\* ---------------------------------------------------------------------------
\* Scheduler properties, continued
\* ---------------------------------------------------------------------------

\* The cadence of a task in clock units.
Cadence(t) == Timedelta(tasks[t].interval_type, tasks[t].interval_value)

\* The worker of task t executes line 109 and ends.
Completes(t) ==
    workers'[<<t, "returned">>] + workers'[<<t, "caught">>]
        < workers[<<t, "returned">>] + workers[<<t, "caught">>]

\* C19: when an execution of a task completes, whether the function returned
\* or raised, the task's is_running flag is cleared and its next_run is set to
\* the completion time plus the cadence, not to the previously scheduled time
\* plus the cadence.
C19_Idle(t) == Executing(t)' < Executing(t) => ~tasks'[t].is_running
C19_NextRun(t) ==
    Completes(t) =>
        /\ tasks'[t].next_run = tick_now + Cadence(t)
        /\ tick_now # tasks[t].next_run
              => tasks'[t].next_run # tasks[t].next_run + Cadence(t)
ThmC19_NextRunFromCompletion ==
    [][\A t \in TaskNames : C19_Idle(t) /\ C19_NextRun(t)]_vars

\* Both tasks were due at 0 and have completed, one at clock 0 and one at
\* clock 1: the first is scheduled for 0 + cadence, the second for
\* 1 + cadence, which is not its scheduled time 0 plus the cadence. Both are idle.
WitC19_NextRunFromCompletion ==
    \E t \in TaskNames, u \in TaskNames :
        /\ t # u
        /\ \A pc \in WorkerPcs : workers[<<t, pc>>] = 0 /\ workers[<<u, pc>>] = 0
        /\ ~tasks[t].is_running /\ ~tasks[u].is_running
        /\ tasks[t].next_run = 1 + Cadence(t)
        /\ tasks[u].next_run = Cadence(u)

\* The loop starts a worker thread for task t.
C20_Launch(t) == workers'[<<t, "spawned">>] > workers[<<t, "spawned">>]

\* Some execution of task t has completed: its worker is between line 108 and
\* line 109, or line 109 has already moved next_run off the creation time.
C20_Completed(t) ==
    \/ workers[<<t, "returned">>] + workers[<<t, "caught">>] > 0
    \/ tasks[t].next_run > 0

\* C20: once an execution of a task has completed, the task is not launched
\* again before the completion time plus the cadence. No execution completes
\* before clock 0, so such a launch happens at clock >= cadence at the earliest.
CexC20_NoCatchUp ==
    [][\A t \in TaskNames :
          (C20_Launch(t) /\ C20_Completed(t)) => tick_now >= Cadence(t)]_vars

\* ---------------------------------------------------------------------------
\* start()/stop() properties
\* ---------------------------------------------------------------------------

\* A loop thread starts a worker thread.
Dispatches == \E t \in TaskNames : workers'[<<t, "spawned">>] > workers[<<t, "spawned">>]

\* C21: once stop() has returned (the latest call is a stop() and it is no
\* longer inside its join), and until start() is called again, no loop thread
\* starts a task execution.
CexC21_NoDispatchAfterStop ==
    [][(LastCall = "stop" /\ ~stopping /\ lifecycle' = lifecycle) => ~Dispatches]_vars

\* C22: stop() cancels no execution in progress and does not wait for it: the
\* steps of stop() (clearing the flag, returning from the join) leave every
\* worker thread and every task as they were, and with the scheduler stopped
\* an execution still ends through the finally clause, which leaves the task
\* idle, and line 109, which recomputes next_run.
C22_StopStep ==
    (sched_is_running /\ ~sched_is_running') => (workers' = workers /\ tasks' = tasks)
C22_Return ==
    (stopping /\ ~stopping') => (workers' = workers /\ tasks' = tasks)
C22_Finishes(t) ==
    ~sched_is_running =>
        /\ Executing(t)' < Executing(t) =>
              /\ ~tasks'[t].is_running
              /\ workers'[<<t, "returned">>] + workers'[<<t, "caught">>]
                   = workers[<<t, "returned">>] + workers[<<t, "caught">>] + 1
        /\ Completes(t) => tasks'[t].next_run = tick_now + Cadence(t)
ThmC22_StopLeavesExecutions ==
    [][C22_StopStep /\ C22_Return /\ \A t \in TaskNames : C22_Finishes(t)]_vars

\* The scheduler was started and is stopped, and stop() has returned; the
\* function of one task is still executing, and another task's execution has
\* completed and left it idle with next_run recomputed.
WitC22_StopLeavesExecutions ==
    \E t \in TaskNames, u \in TaskNames :
        /\ t # u
        /\ scheduler_thread > 0 /\ ~sched_is_running /\ ~stopping
        /\ Executing(t) > 0 /\ tasks[t].is_running
        /\ \A pc \in WorkerPcs : workers[<<u, pc>>] = 0
        /\ ~tasks[u].is_running /\ tasks[u].next_run = 1 + Cadence(u)

\* C23: start() and stop() are idempotent. A start() right after a start()
\* and a stop() right after a stop() (whatever the threads did in between)
\* leave the scheduler as it was, and so does a stop() on a scheduler on
\* which start() was never called.
SchedulerUnchanged ==
    UNCHANGED <<sched_is_running, scheduler_thread, loops, tasks, workers, tick_now, in_pass,
                stopping>>
C23_StartStart == (CallStart /\ LastCall = "start") => SchedulerUnchanged
C23_StopStop   == (CallStop /\ LastCall = "stop") => SchedulerUnchanged
C23_NeverStarted == (CallStop /\ scheduler_thread = 0) => SchedulerUnchanged
ThmC23_Idempotent == [][C23_StartStart /\ C23_StopStop /\ C23_NeverStarted]_vars

\* start() was called twice in a row: one loop thread exists, the one the
\* first call made, and the scheduler is running.
WitC23_Idempotent ==
    /\ lifecycle = <<"start", "start">>
    /\ sched_is_running
    /\ scheduler_thread = 1
    /\ LoopThreads = 1

\* C24: the loop's pass does not wait for a task to finish. When a pass takes
\* a task u while the function of another task t is executing, u gets its
\* worker thread started if it is enabled, idle and due by the clock reading
\* of the pass, and the executing function is left running; so two different
\* tasks can be executing at once.
C24_Pass ==
    \A p \in BagToSet(in_pass) : \A u \in TaskNames :
        Takes(p, u) =>
            \A t \in TaskNames \ {u} : Executing(t) > 0 =>
                /\ Executing(t)' = Executing(t)
                /\ (tasks[u].enabled /\ ~tasks[u].is_running /\ tasks[u].next_run <= p.now)
                      => workers'[<<u, "spawned">>] = workers[<<u, "spawned">>] + 1
ThmC24_TickNeverWaits == [][C24_Pass]_vars

\* The functions of both tasks are executing at the same time, and "alerts"
\* has completed an execution before this one: it came due again and was
\* started again.
WitC24_TickNeverWaits ==
    /\ sched_is_running
    /\ Executing("search") > 0
    /\ Executing("alerts") > 0
    /\ tasks["alerts"].next_run > 0

(***************************************************************************)
(*                      Pass properties, continued                         *)
(***************************************************************************)

\* The pass that ends in this step called notify for its new items and the
\* call failed.
NotifyFailed == Passed /\ pass_log'.notify_called /\ ~pass_log'.success

\* C25: when the notify call for a batch fails, a notification record with
\* success = FALSE has been appended for the batch when the pass ends.
CexC25_FailureRecorded ==
    [][NotifyFailed =>
          \E k \in DOMAIN notifications' :
              /\ notifications'[k].timestamp >= 0
              /\ ~notifications'[k].success
              /\ Range(notifications'[k].accommodation_ids) = Range(pass_log'.new)]_vars

\* C26: items whose notification failed in a pass stay un-notified until a
\* notify call that includes them succeeds, and the next pass that finds them
\* new again passes them to the notify call again.
C26_StayUnnotified ==
    NotifyFailed =>
        \A i \in Range(pass_log'.new) : accommodations'[i].is_notified => i \in delivered'
C26_Retried ==
    (/\ Passed
     /\ pass_log.n >= 1
     /\ pass_log.notify_called /\ ~pass_log.success
     /\ (Range(pass_log.new) \cap Range(pass_log'.new)) \ delivered' # {})
        => pass_log'.notify_called
CexC26_RetryNextPass == [][C26_StayUnnotified /\ C26_Retried]_vars

\* The step in which send_if_needed returns to the pass of thread t.
C27_NotifyReturns(t) == passes[t].pc = "keys" /\ passes'[t].pc \notin {"keys", "key_add"}
\* C27: a failed notify does not end the pass: the pass goes on to the search
\* record, and ends with exactly one search record appended, holding the
\* number of filtered candidates of the pass, unless save_search_record
\* itself raises (another connection holds the write lock).
C27_GoesOn ==
    \A t \in Callers :
        (C27_NotifyReturns(t) /\ ~passes'[t].success) => passes'[t].pc = "record"
C27_Recorded ==
    NotifyFailed =>
        \/ /\ pass_log'.outcome = "done"
           /\ Len(searches') = Len(searches) + 1
           /\ SubSeq(searches', 1, Len(searches)) = searches
           /\ searches'[Len(searches')].timestamp = now
           /\ searches'[Len(searches')].results_count = Len(pass_log'.filtered)
        \/ /\ pass_log'.outcome = "error"
           /\ write_lock # 0
           /\ UNCHANGED searches
ThmC27_SearchRecordedAfterFailedNotify == [][C27_GoesOn /\ C27_Recorded]_vars

\* A pass has called notify for its new items, the call failed, and the
\* searches table holds the record of the pass as its last row.
WitC27_SearchRecordedAfterFailedNotify ==
    /\ pass_log.n >= 1
    /\ pass_log.notify_called /\ ~pass_log.success
    /\ pass_log.new # <<>>
    /\ pass_log.outcome = "done"
    /\ pass_log.search_recorded
    /\ searches # <<>>
    /\ searches[Len(searches)].timestamp = now
    /\ searches[Len(searches)].results_count = Len(pass_log.filtered)

(***************************************************************************)
(*                          Function properties                            *)
(***************************************************************************)

\* Position of platform p in the configured list.
PlatformIndex(platforms, p) == CHOOSE i \in 1..Len(platforms) : platforms[i] = p

\* C28: when search_all_platforms returns, every platform of the list has been
\* fetched, in the order of the list; in the list it returns, a platform whose
\* fetch failed has no candidate, every other platform has exactly the
\* candidates its fetch returned, in that order, and candidates of different
\* platforms follow the order of the configuration.
C28_Holds(platforms, fetched, result) ==
    /\ Len(fetched) = Len(platforms)
    /\ \A i \in 1..Len(fetched) : fetched[i].platform = platforms[i]
    /\ \A k \in 1..Len(result) :
          \E i \in 1..Len(platforms) : platforms[i] = result[k].platform
    /\ \A i \in 1..Len(fetched) :
          SelectSeq(result, LAMBDA c : c.platform = fetched[i].platform)
              = IF fetched[i].ok THEN fetched[i].items ELSE <<>>
    /\ \A j \in 1..Len(result), k \in 1..Len(result) :
          j < k => PlatformIndex(platforms, result[j].platform)
                      <= PlatformIndex(platforms, result[k].platform)
ThmC28_FetchFailureIsLocal ==
    (fn_arg.fn = "search_all_platforms" /\ fn_ret.done)
        => C28_Holds(fn_arg.platforms, fn_ret.fetched, fn_ret.value)

\* Three platforms are configured, the fetch of the second one failed and the
\* other two returned two candidates each: the result holds the four, those
\* of the first platform before those of the third.
WitC28_FetchFailureIsLocal ==
    /\ fn_arg.fn = "search_all_platforms"
    /\ fn_ret.done
    /\ Len(fn_arg.platforms) = 3
    /\ Len(fn_ret.fetched) = 3
    /\ fn_ret.fetched[1].ok /\ fn_ret.fetched[1].items # <<>>
    /\ ~fn_ret.fetched[2].ok
    /\ fn_ret.fetched[3].ok /\ fn_ret.fetched[3].items # <<>>
    /\ Len(fn_ret.value) = 4
    /\ fn_ret.value[1].platform = fn_arg.platforms[1]
    /\ fn_ret.value[4].platform = fn_arg.platforms[3]

\* Title or location after case folding and trimming.
NormalizedText(text) == Strip(LowerText(text))

\* C30: two candidates get the same identity key exactly when their
\* normalized titles are equal, their normalized locations are equal and
\* their platform is the same; price and rating play no part.
C30_SameIdentity(c, d) ==
    /\ NormalizedText(c.title) = NormalizedText(d.title)
    /\ NormalizedText(c.location) = NormalizedText(d.location)
    /\ c.platform = d.platform
CexC30_IdentityKey ==
    (fn_arg.fn = "_create_accommodation_hash" /\ fn_ret.done)
        => (C30_SameIdentity(fn_arg.first, fn_arg.second) <=> fn_ret.value[1] = fn_ret.value[2])

(***************************************************************************)
(*                      Pass properties, continued (2)                     *)
(***************************************************************************)

\* The tables and the notifier's memory are left as they were.
C29_NothingElse ==
    /\ UNCHANGED <<accommodations, price_history, searches, notifications>>
    /\ UNCHANGED <<sent_accommodations, delivered>>
\* The pass was run by a worker thread of the search task: the function
\* returns to line 103 of _run_task (the worker is not in the except clause),
\* and the tasks, the loop threads, the flag and the clock are as they were.
C29_Returns ==
    /\ workers'[<<SearchTask, "done">>] = workers[<<SearchTask, "done">>] + 1
    /\ workers'[<<SearchTask, "fn">>] = workers[<<SearchTask, "fn">>] - 1
    /\ workers'[<<SearchTask, "caught">>] = 0
    /\ UNCHANGED <<sched_is_running, scheduler_thread, loops, in_pass, stopping, tick_now, tasks>>
\* The step of a worker whose function has returned is the finally clause: the
\* task is idle, the worker goes on to line 109, and the loop threads and the
\* flag are as they were.
C29_Finally ==
    workers'[<<SearchTask, "done">>] < workers[<<SearchTask, "done">>] =>
        /\ ~tasks'[SearchTask].is_running
        /\ workers'[<<SearchTask, "returned">>] = workers[<<SearchTask, "returned">>] + 1
        /\ workers'[<<SearchTask, "caught">>] = 0
        /\ UNCHANGED <<sched_is_running, scheduler_thread, loops, in_pass, stopping>>
\* A save_accommodation call of the pass of thread t has raised: the thread
\* makes no further store call, and its next step ends the pass.
C29_AfterRaise(t) ==
    (InPass(t) /\ calls[t].pc = "raised") =>
        /\ calls'[t] = calls[t]
        /\ passes'[t] # passes[t] =>
              /\ Passed
              /\ pass_log'.thread = t
              /\ pass_log'.outcome = "error"
              /\ passes[t].pc = "save" => ~pass_log'.notify_called /\ pass_log'.new = <<>>
C29_EndsEarly ==
    (Passed /\ pass_log'.outcome = "error") =>
        /\ ~pass_log'.search_recorded
        /\ passes'[pass_log'.thread].pc = "idle"
        /\ C29_NothingElse
        /\ C29_Returns
\* The worker of the failed execution recomputes next_run as after any
\* execution, and a pass of the loop that finds the task enabled, idle and
\* due starts a worker for it, whatever the executions before have come to.
C29_Retry ==
    /\ Completes(SearchTask) => tasks'[SearchTask].next_run = tick_now + Cadence(SearchTask)
    /\ \A p \in BagToSet(in_pass) :
          (Takes(p, SearchTask) /\ Due(SearchTask, p.now)) => Spawns(SearchTask)
\* C29: a pass in which a store operation fails ends there: the error is
\* caught in the pass, whose outcome is the empty result; no later step of
\* the pass is executed (no further save, and after a failure in the first
\* save loop no notify call; no item marked by the failing step, no search
\* record); the task function returns to _run_task, whose finally clause
\* leaves the task idle and the loop threads running; and the task is
\* dispatched again by the pass that finds it due at its recomputed next_run.
ThmC29_StoreFailureEndsPass ==
    [][(\A t \in Callers : C29_AfterRaise(t)) /\ C29_EndsEarly /\ C29_Finally /\ C29_Retry]_vars

\* The first execution of the search task ended with a store error at clock
\* 0; the task came due again one cadence later and the loop, still running,
\* has started a worker for it.
WitC29_StoreFailureEndsPass ==
    /\ pass_log.n = 1
    /\ pass_log.outcome = "error"
    /\ pass_log.filtered # <<>>
    /\ ~pass_log.search_recorded
    /\ sched_is_running
    /\ tasks[SearchTask].next_run = Cadence(SearchTask)
    /\ tick_now >= tasks[SearchTask].next_run
    /\ workers[<<SearchTask, "spawned">>] > 0

\* ---- C31 ----
\* Two criteria texts that agree on every field but check_in and check_out.
SameButDates(j1, j2) ==
    \A k \in DOMAIN j1 : j1[k][1] \notin {"check_in", "check_out"} => j1[k] = j2[k]

\* C31: any two recorded searches whose criteria differ at most in the
\* check-in and check-out dates are stored under the same criteria key.
ThmC31_DatesLeftOutOfKey ==
    \A i, j \in DOMAIN searches :
        SameButDates(searches[i].criteria_json, searches[j].criteria_json)
            => searches[i].criteria_hash = searches[j].criteria_hash

\* Two searches were recorded for criteria with different dates and nothing
\* else different, and share their key.
WitC31_DatesLeftOutOfKey ==
    /\ fn_arg.fn = "save_search_record"
    /\ Len(searches) = 2
    /\ searches[1].criteria_json # searches[2].criteria_json
    /\ SameButDates(searches[1].criteria_json, searches[2].criteria_json)
    /\ searches[1].criteria_hash = searches[2].criteria_hash

\* ---- C32 ----
\* A step in which an execution of t's function starts (line 98 onwards).
Launches(t) == workers'[<<t, "fn">>] > workers[<<t, "fn">>]

\* C32: while a task is disabled (disable_task returned True and enable_task
\* was not called since), no execution of its function starts.
CexC32_DisabledNeverLaunched ==
    [][\A t \in TaskNames : ~tasks[t].enabled => ~Launches(t)]_vars

\* ---- C33 ----
\* C33: no two tasks held by the scheduler have the same name.
CexC33_UniqueNames ==
    \A i, j \in DOMAIN registry : registry[i] = registry[j] => i = j

\* ---- C34 ----
\* C34: the running flag of a task is already true when its worker thread has
\* been launched by the tick.
CexC34_FlagSetOnTick ==
    [][\A t \in TaskNames : Spawns(t) => tasks'[t].is_running]_vars

\* ---- C40 ----
\* C40: the interactive search command and the scheduled search task never
\* execute a search-and-process pass at the same time.
CexC40_OnePassAtATime ==
    ~(ManualPass /\ ScheduledPasses > 0)

\* ---- C38 ----
\* A task of which no worker has executed line 98 yet is as it was created:
\* due at its creation time, the clock value 0 of the scheduler's
\* construction, and idle. next_run stays the creation time until an
\* execution has completed, and a task is marked running before its first
\* last_run is written only while a worker is between lines 98 and 99.
C38_NewTaskDue ==
    \A t \in DOMAIN tasks :
        tasks[t].last_run = Never =>
            /\ tasks[t].next_run = 0
            /\ tasks[t].is_running => workers[<<t, "marked">>] > 0
C38_Dispatched ==
    \A p \in BagToSet(in_pass) : \A t \in DefaultTaskNames :
        (Takes(p, t) /\ tasks[t].enabled /\ tasks[t].last_run = Never
            /\ workers[<<t, "marked">>] = 0) => Spawns(t)

\* C38: a new task is due from its creation on, not one cadence interval
\* later: next_run is the creation time until the task is first executed, so
\* every pass of a loop thread, and with it the first pass after any start(),
\* whatever the clock reads by then, starts a worker for each enabled task of
\* the four (search, price alerts, cleanup, heartbeat) of which no worker has
\* begun an execution yet.
ThmC38_NewTasksAreDue == []C38_NewTaskDue /\ [][C38_Dispatched]_vars

\* The first pass after the first start() has ended within the clock value of
\* the start(), and each of the four tasks was dispatched in it: its worker
\* is waiting to run or has started the execution.
WitC38_NewTasksAreDue ==
    /\ tick_now = 0
    /\ scheduler_thread = 1
    /\ sched_is_running
    /\ in_pass = EmptyBag
    /\ BagIn([wake_at |-> PollInterval], loops)
    /\ \A t \in DefaultTaskNames :
          \/ tasks[t].last_run = 0
          \/ workers[<<t, "spawned">>] + workers[<<t, "checked">>]
                + workers[<<t, "marked">>] > 0

\* A step of restore_database's copy onto the database file.
RestoreStep ==
    /\ db_file' # db_file
    /\ "restore" \in {db_file.copy.op, db_file'.copy.op}

\* ---- C35 ----
\* C35: an item whose is_notified flag is set keeps the flag in every step of
\* the store but the replacement of the file by a backup (upsert,
\* markNotified, prune, recordSearch, recordNotification), and is in no
\* result of newSince afterwards.
ThmC35_NotifiedMonotonic ==
    [][~RestoreStep =>
          \A id \in DOMAIN accommodations : accommodations[id].is_notified =>
              /\ id \in DOMAIN accommodations'
              /\ accommodations'[id].is_notified
              /\ \A h \in HoursBack, usec \in Microseconds :
                    id \notin NewIds(accommodations', now', tz', usec, h)]_vars

\* A notified item was upserted with a changed price and is still notified.
WitC35_NotifiedMonotonic ==
    /\ ret.op = "mark_as_notified"
    /\ \E t \in Callers :
          /\ calls[t].pc = "returned"
          /\ "price_history" \in calls[t].committed
          /\ accommodations[calls[t].value].is_notified
          /\ accommodations[calls[t].value].last_seen = now
          /\ accommodations[calls[t].value].price = calls[t].arg.price
          /\ Len(ObservationsOf(price_history, calls[t].value)) >= 2
          /\ price_history[Len(price_history)].timestamp = now

\* ---- C36 ----
\* The columns the UPDATE of an existing row may change.
C36_Mutable == {"last_seen", "times_seen", "price", "currency", "rating"}

\* A step of the save_accommodation call of thread t, which found its identity.
C36_Acts(t) == InCall(t) /\ calls[t].existing # <<>> /\ calls'[t] # calls[t]
C36_Step ==
    \A t \in Callers :
        C36_Acts(t) =>
            LET id == calls[t].existing[1].id IN
            /\ calls'[t].pc = "returned" => calls'[t].value = id
            /\ DOMAIN accommodations' = DOMAIN accommodations
            /\ \A i \in DOMAIN accommodations : i # id => accommodations'[i] = accommodations[i]
            /\ id \in DOMAIN accommodations =>
                  \A f \in DOMAIN accommodations[id] \ C36_Mutable :
                      accommodations'[id][f] = accommodations[id][f]
            /\ \/ price_history' = price_history
               \/ /\ calls[t].pc = "selected"
                  /\ Len(price_history') = Len(price_history) + 1
                  /\ SubSeq(price_history', 1, Len(price_history)) = price_history
                  /\ price_history'[Len(price_history')].accommodation_id = id
            /\ UNCHANGED <<searches, notifications>>
\* C36: the upsert of a candidate whose identity exists changes at most
\* last_seen, times_seen, price, currency and rating of that item and appends
\* at most one observation of it; its id, identity key, first_seen, notified
\* flag, title, location and platform, and every other item, stay as they were.
ThmC36_UpsertFrame == [][C36_Step]_vars

\* The item stored as "A " was upserted by the candidate spelled "a" at a new
\* price, next to a second item: its price changed and its title did not.
WitC36_UpsertFrame ==
    /\ DOMAIN accommodations = {1, 2}
    /\ \E t \in Callers :
          /\ calls[t].pc = "returned"
          /\ calls[t].value = 1
          /\ calls[t].arg.title = <<"a">>
          /\ calls[t].committed = {"accommodations", "price_history"}
          /\ accommodations[1].title = <<"A", " ">>
          /\ accommodations[1].price = calls[t].arg.price
          /\ accommodations[1].last_seen = now
          /\ accommodations[1].first_seen < 0
          /\ price_history[Len(price_history)].accommodation_id = 1
          /\ price_history[Len(price_history)].timestamp = now

\* ---- C37 ----
\* The observation of item id that was appended last.
LatestObservation(ph, id) == ObservationsOf(ph, id)[Len(ObservationsOf(ph, id))]

\* C37: once every upsert call that was begun has returned, the price and
\* currency of the observation appended last for an item are the item's
\* stored price and currency.
CexC37_LatestObservationIsCurrent ==
    (\A t \in Callers : calls[t].pc \in {"idle", "returned"}) =>
        \A id \in DOMAIN accommodations :
            ObservationsOf(price_history, id) # <<>> =>
                /\ LatestObservation(price_history, id).price = accommodations[id].price
                /\ LatestObservation(price_history, id).currency = accommodations[id].currency

\* ---- C39 ----
\* C39: a pass whose fetch returns no candidates, or whose filters leave
\* none, ends where it began: it calls neither upsert nor notify,
\* markNotified or recordSearch, and leaves the tables and the notifier's
\* memory as they were.
ThmC39_EmptyPassChangesNothing ==
    [][(Passed /\ (pass_log'.fetched = <<>> \/ ApplyAllFilters(pass_log'.fetched) = <<>>)) =>
          /\ pass_log'.outcome = "nothing"
          /\ ~InPass(pass_log'.thread)
          /\ passes'[pass_log'.thread].n = passes[pass_log'.thread].n + 1
          /\ UNCHANGED <<accommodations, price_history, searches, notifications>>
          /\ UNCHANGED <<sent_accommodations, delivered, write_lock>>
          /\ ~pass_log'.notify_called
          /\ pass_log'.marked = {}
          /\ ~pass_log'.search_recorded]_vars

\* A pass fetched a candidate that the filters rejected, over a store holding
\* an item that a pass running further would have announced.
WitC39_EmptyPassChangesNothing ==
    /\ pass_log.n >= 1
    /\ pass_log.fetched # <<>>
    /\ pass_log.filtered = <<>>
    /\ pass_log.outcome = "nothing"
    /\ \A usec \in Microseconds : NewIds(accommodations, now, tz, usec, NewWindowHours) # {}
====
